---- MODULE Spec2Model ----
(***************************************************************************)
(* Media generation and bulk export of the event photo-capture service.    *)
(*                                                                         *)
(*   fetchBuffer          backend/src/routes/photos.js  (remote fetcher)   *)
(*   GET /event/:id/zip   backend/src/routes/photos.js  (archive streamer) *)
(*   generateAIImage      backend/src/services/ai.js    (one AI attempt)   *)
(*   restyle              the retry loop around generateAIImage            *)
(*                                                                         *)
(* Every asynchronous function is cut at its awaits and callbacks: one     *)
(* action per piece of code that runs without yielding to the event loop.  *)
(***************************************************************************)
EXTENDS Integers, Sequences, FiniteSets, TLC

(***************************************************************************)
(* Bounds of the model.                                                    *)
(***************************************************************************)
\* longest artifact list an event has
MaxPhotos == 2
\* most 'data' events one response body is delivered in
MaxChunks == 2
\* fetchBuffer calls the stand-alone caller of SpecFetch makes
MaxCalls == 1
\* milliseconds of wall-clock time that pass in one Tick
TickMs == 10000
\* calls of createGIF / createBoomerang that can be in progress at once
MaxGifCalls == 2
\* most frames one animation request carries
MaxFrames == 2
\* requests served one after the other against one store
MaxRequests == 2
\* most partial arrivals of one response head
MaxTrickle == 1

(***************************************************************************)
(* Program constants.                                                      *)
(***************************************************************************)
\* photos.js:277  options.maxRedirects !== undefined ? ... : 3
DefaultMaxRedirects == 3
\* photos.js:278  options.connectTimeoutMs || 10000
DefaultConnectTimeoutMs == 10000
\* photos.js:279  options.responseTimeoutMs || 30000
DefaultResponseTimeoutMs == 30000
\* photos.js:174  photo.id.slice(0, 8)
IdSliceLen == 8
\* ai.js:109  error.response.headers['x-wait-estimated-time'] || 30
DefaultWaitTime == 30

(***************************************************************************)
(* Strings are sequences of one-character strings, so that startsWith,     *)
(* includes and slice are computed and not assumed.                        *)
(***************************************************************************)
Min(a, b) == IF a <= b THEN a ELSE b

\* String.prototype.startsWith
StartsWith(s, p) ==
    /\ Len(p) <= Len(s)
    /\ SubSeq(s, 1, Len(p)) = p

\* String.prototype.includes
Includes(s, p) ==
    \E k \in 0..(Len(s) - Len(p)) : SubSeq(s, k + 1, k + Len(p)) = p

\* String.prototype.slice(0, n)
Slice0(s, n) == SubSeq(s, 1, Min(n, Len(s)))

RECURSIVE Concat(_)
\* Buffer.concat(chunks)
Concat(cs) == IF cs = <<>> THEN <<>> ELSE Head(cs) \o Concat(Tail(cs))

TextSlash == <<"t", "e", "x", "t", "/">>
Html == <<"h", "t", "m", "l">>
ImageJpeg == <<"i", "m", "a", "g", "e", "/", "j", "p", "e", "g">>
TextHtml == <<"t", "e", "x", "t", "/", "h", "t", "m", "l">>
TextPlain == <<"t", "e", "x", "t", "/", "p", "l", "a", "i", "n">>
AppXhtml == <<"a", "p", "p", "l", "i", "c", "a", "t", "i", "o", "n", "/",
              "x", "h", "t", "m", "l">>
\* a response without a content-type header: resp.headers['content-type'] || ''
NoContentType == <<>>

ContentTypes == {ImageJpeg, TextHtml, TextPlain, AppXhtml, NoContentType}
Statuses == {200, 299, 300, 399, 404}
Urls == {"u1", "u2", "u3"}
NoLocation == "none"
\* what one 'data' event can carry
BodyChunks == {<<"a">>, <<"b">>}

NoValue == [kind |-> "none", status |-> 0, ct |-> <<>>, url |-> "none", bytes |-> <<>>]

\* new Error('HTTP ' + resp.statusCode + ' for ' + url)
HttpError(status, u) ==
    [kind |-> "HTTP", status |-> status, ct |-> <<>>, url |-> u, bytes |-> <<>>]
\* new Error('Unexpected content-type "' + contentType + '" for ' + url)
ContentTypeError(ct, u) ==
    [kind |-> "Unexpected content-type", status |-> 0, ct |-> ct, url |-> u, bytes |-> <<>>]
\* new Error('Response timeout for ' + url)
ResponseTimeoutError(u) ==
    [kind |-> "Response timeout", status |-> 0, ct |-> <<>>, url |-> u, bytes |-> <<>>]
\* new Error('Connection timeout for ' + url)
ConnectionTimeoutError(u) ==
    [kind |-> "Connection timeout", status |-> 0, ct |-> <<>>, url |-> u, bytes |-> <<>>]
\* the err node hands to req.on('error') / resp.on('error')
SocketError ==
    [kind |-> "socket error", status |-> 0, ct |-> <<>>, url |-> "none", bytes |-> <<>>]
\* the Buffer a fetch resolves with
Bytes(b) ==
    [kind |-> "bytes", status |-> 0, ct |-> <<>>, url |-> "none", bytes |-> b]

VARIABLES
    \* ---- fetchBuffer: the request in flight --------------------------------
    promise,        \* "none" | "pending" | "resolved" | "rejected"
    result,         \* what the promise settled with
    reqState,       \* "idle" | "connecting" | "waiting" | "body" | "closed"
    url,            \* url of the request in flight
    maxRedirects,   \* redirects this request may still follow
    connectTimeoutMs,
    responseTimeoutMs,
    sockIdle,       \* ms since the connected socket last saw activity
    responseTimer,  \* -1: not armed; else ms since setTimeout(.., responseTimeoutMs)
    chunks,         \* data chunks received so far
    destroyed,      \* req.destroy() was called
    \* ---- fetchBuffer: what an observer of one call records ------------------
    bound,          \* redirect bound the call started with
    hops,           \* requests issued for the call
    lastResp,       \* headers of the last response received
    respCount,      \* responses received for the call
    cause,          \* why the call failed
    phaseMs,        \* wall-clock ms since the current request connected, or since
                    \* its response was accepted (observer)
    callMs,         \* wall-clock ms the call has spent with a connected socket (observer)
    trickled,       \* partial arrivals of the response head awaited
    calls,          \* calls made by the stand-alone caller
    \* ---- GET /event/:eventId/zip -------------------------------------------
    zpc,            \* "off" | "photos" | "event" | "fetch" | "finalize" | "done"
    dbPhotos,       \* rows of the photos table for the event, newest first
    photos,         \* photosResult.data || []
    i,              \* loop index (0-based, as in the code)
    skipped,
    resStatus,      \* 0: nothing sent yet
    resHeaders,     \* headers set with res.setHeader
    headersSent,    \* res.headersSent
    resError,       \* error text of a json error body
    archive,        \* the archiver instance
    outcomes,       \* per list position: "ok" | "fail" (observer)
    lookup,         \* how the artifact-list lookup ended (observer)
    \* ---- restyle / generateAIImage ----------------------------------------
    aiState,        \* "off" | "ATTEMPT" | "WAIT" | "DONE" | "FAILED" | "UNAVAILABLE"
                    \* | "CANCELLED"
    session,        \* "up" | "down": the owning session (the client's connection)
    styleKey,       \* the style asked for
    frameOk,        \* the uploaded frame decodes as an image
    attempts,       \* calls of generateAIImage so far
    waitTime,       \* seconds of the wait in progress
    waits,          \* waits slept through, in order
    notes,          \* progress notifications emitted, in order
    replies,        \* what the endpoint answered, in order (observer)
    aiResult,       \* what the last generateAIImage call returned or threw
    \* ---- the store -----------------------------------------------------------
    tblEvents,      \* rows of the events table
    tblPhotos,      \* rows of the photos table
    bucket,         \* objects of the storage bucket: [key, data]
    emits,          \* what was emitted to the event's socket room, in order
    \* ---- the request in flight ----------------------------------------------
    route,          \* "off" | "upload" | "gif" | "strip" | "deletePhoto" | "deleteEvent"
    hpc,            \* the await the handler is suspended at
    req,
    res,
    event,          \* the row the events lookup returned
    \* ---- locals of POST /upload ---------------------------------------------
    photoId,
    storageKey,
    processedBuffer,
    thumbBuffer,
    overlayRun,     \* "none" | "skipped" | "applied" | "failed" (observer)
    \* ---- locals of POST /strip and createPhotoStrip -------------------------
    stripPhotos,    \* photos: the frame buffers of the request
    stripBranding,  \* branding, as createPhotoStrip receives it
    stripHeight,
    compositeInputs,
    stripI,         \* the loop index i (0-based, as in the code)
    stripBuffer,
    \* ---- createGIF / createBoomerang, POST /gif -----------------------------
    gifCalls,       \* per call of createGIF: its position and locals
    fsDirs,         \* the directories that exist under os.tmpdir()
    fsFiles,        \* the files in them: [dir, name, data]
    usedDirs,       \* directory names drawn so far (observer)
    gifId,
    gifBuffer,
    \* ---- DELETE /:photoId, DELETE /events/:id -------------------------------
    photoRow,          \* the row the photos lookup returned
    acked,          \* ids whose DELETE was answered with success (observer)
    served,         \* requests that have arrived
    \* ---- the booth store and CountdownScreen ---------------------------------
    screen,         \* store: the screen the booth shows
    boothMode,      \* store: mode
    currentPhoto,   \* store: "none" or the id of the artifact shown
    isProcessing,   \* store
    mounted,        \* a CountdownScreen is mounted
    cancelled,      \* the flag of its effect closure
    spc,            \* where runSession / processCaptures is suspended
    countdownSeconds,
    shot,           \* the loop index of runSession
    countdown,      \* component state: the number shown, 0 for null
    phase,          \* component state
    shotsTaken,     \* component state
    allFrames,      \* frames pushed so far
    cancelPressed   \* Cancel was pressed (observer)

fetchVars == <<promise, result, reqState, url, maxRedirects, connectTimeoutMs,
               responseTimeoutMs, sockIdle, responseTimer, chunks, destroyed, bound,
               hops, lastResp, respCount, cause, phaseMs, callMs, trickled>>
zipVars == <<zpc, dbPhotos, photos, i, skipped, resStatus, resHeaders, headersSent,
             resError, archive, outcomes, lookup>>
aiVars == <<aiState, session, styleKey, frameOk, attempts, waitTime, waits, notes, replies,
            aiResult>>
storeVars == <<tblEvents, tblPhotos, bucket, emits>>
reqVars == <<route, hpc, req, res, event>>
uploadVars == <<photoId, storageKey, processedBuffer, thumbBuffer, overlayRun>>
stripVars == <<stripPhotos, stripBranding, stripHeight, compositeInputs, stripI,
               stripBuffer>>
gifVars == <<gifCalls, fsDirs, fsFiles, usedDirs, gifId, gifBuffer>>
deleteVars == <<photoRow, acked, served>>
boothVars == <<screen, boothMode, currentPhoto, isProcessing, mounted, cancelled, spc,
               countdownSeconds, shot, countdown, phase, shotsTaken, allFrames,
               cancelPressed>>
handlerVars == <<storeVars, reqVars, uploadVars, stripVars, gifVars, deleteVars, boothVars>>
vars == <<fetchVars, calls, zipVars, aiVars, handlerVars>>

\* what each part of the program leaves alone
notFetch == <<calls, zipVars, aiVars, handlerVars>>
notZip == <<aiVars, handlerVars>>
notAI == <<fetchVars, calls, zipVars, handlerVars>>
notUpload == <<fetchVars, calls, zipVars, aiVars, stripVars, gifVars, deleteVars,
                boothVars>>
notStrip == <<fetchVars, calls, zipVars, aiVars, uploadVars, gifVars, deleteVars,
               boothVars>>
notGif == <<fetchVars, calls, zipVars, aiVars, uploadVars, stripVars, deleteVars,
             boothVars>>
notDelete == <<fetchVars, calls, zipVars, aiVars, uploadVars, stripVars, gifVars,
                boothVars>>
notBooth == <<fetchVars, calls, zipVars, aiVars, storeVars, reqVars, uploadVars,
              stripVars, gifVars, deleteVars>>

NoResp == [status |-> 0, ct |-> <<>>, location |-> NoLocation]

(***************************************************************************)
(* fetchBuffer                                                             *)
(***************************************************************************)

\* a fetcher that follows while maxRedirects >= 0: one redirect too many
FollowsRedirect_OffByOne(resp, mr) ==
    /\ resp.status >= 300
    /\ resp.status < 400
    /\ resp.location # NoLocation
    /\ mr >= 0

\* resp.statusCode >= 300 && resp.statusCode < 400 && resp.headers.location && maxRedirects > 0
FollowsRedirect(resp, mr) ==
    /\ resp.status >= 300
    /\ resp.status < 400
    /\ resp.location # NoLocation
    /\ mr > 0

\* resp.statusCode < 200 || resp.statusCode >= 300
BadStatus(status) == status < 200 \/ status >= 300

\* a fetcher that only looks at the text/ prefix
BadContentType_PrefixOnly(ct) == StartsWith(ct, TextSlash)

\* contentType.startsWith('text/') || contentType.includes('html')
BadContentType(ct) == StartsWith(ct, TextSlash) \/ Includes(ct, Html)

\* client.get(url, ...): a new request, with its own socket and timers
NewRequest(u, mr) ==
    /\ reqState' = "connecting"
    /\ url' = u
    /\ maxRedirects' = mr
    /\ sockIdle' = 0
    /\ responseTimer' = -1
    /\ chunks' = <<>>
    /\ destroyed' = FALSE
    /\ phaseMs' = 0
    /\ trickled' = 0

\* options = options || {}
NoOptions == <<>>

\* options.maxRedirects !== undefined ? options.maxRedirects : 3
MaxRedirectsOf(options) ==
    IF "maxRedirects" \in DOMAIN options THEN options.maxRedirects
    ELSE DefaultMaxRedirects

\* options.connectTimeoutMs || 10000
ConnectTimeoutOf(options) ==
    IF "connectTimeoutMs" \in DOMAIN options /\ options.connectTimeoutMs # 0
    THEN options.connectTimeoutMs
    ELSE DefaultConnectTimeoutMs

\* options.responseTimeoutMs || 30000
ResponseTimeoutOf(options) ==
    IF "responseTimeoutMs" \in DOMAIN options /\ options.responseTimeoutMs # 0
    THEN options.responseTimeoutMs
    ELSE DefaultResponseTimeoutMs

\* fetchBuffer(url, options) as its caller sees it: a pending promise
fetchBuffer(u, options) ==
    /\ promise' = "pending"
    /\ result' = NoValue
    /\ NewRequest(u, MaxRedirectsOf(options))
    /\ connectTimeoutMs' = ConnectTimeoutOf(options)
    /\ responseTimeoutMs' = ResponseTimeoutOf(options)
    /\ bound' = MaxRedirectsOf(options)
    /\ hops' = 1
    /\ lastResp' = NoResp
    /\ respCount' = 0
    /\ cause' = "none"
    /\ callMs' = 0

\* the request is over: nothing of it fires any more
CloseRequest ==
    /\ reqState' = "closed"
    /\ sockIdle' = 0
    /\ responseTimer' = -1
    /\ phaseMs' = 0
    /\ callMs' = 0
    /\ trickled' = 0

Reject(err, why) ==
    /\ promise' = "rejected"
    /\ result' = err
    /\ cause' = why

Resolve(buf) ==
    /\ promise' = "resolved"
    /\ result' = Bytes(buf)
    /\ cause' = "none"

\* the socket timer of req.setTimeout(connectTimeoutMs, ...) is due
ConnectTimerDue == reqState \in {"waiting", "body"} /\ sockIdle >= connectTimeoutMs

\* the timer of setTimeout(..., responseTimeoutMs) is due
ResponseTimerDue == reqState = "body" /\ responseTimer >= responseTimeoutMs

\* no timer is due: time can go on
NoTimerDue == ~ConnectTimerDue /\ ~ResponseTimerDue

\* the deadline of a timer lies in the past: its callback has run before anything
\* else reaches the request (at the very instant of the deadline an event of the
\* socket can still come first)
DeadlinePassed ==
    \/ reqState \in {"waiting", "body"} /\ sockIdle > connectTimeoutMs
    \/ reqState = "body" /\ responseTimer > responseTimeoutMs

\* the socket connects; req.setTimeout arms the socket's inactivity timer, which
\* node starts once the socket is connected
FetchConnect ==
    /\ promise = "pending"
    /\ UNCHANGED notFetch
    /\ reqState = "connecting"
    /\ reqState' = "waiting"
    /\ sockIdle' = 0
    /\ phaseMs' = 0
    /\ UNCHANGED <<promise, result, url, maxRedirects, connectTimeoutMs,
                   responseTimeoutMs, responseTimer, chunks, destroyed, bound, callMs, trickled, hops,
                   lastResp, respCount, cause>>

\* req.on('error', reject): the connection fails or is reset before a response
FetchRequestError ==
    /\ promise = "pending"
    /\ UNCHANGED notFetch
    /\ reqState \in {"connecting", "waiting"}
    /\ ~DeadlinePassed
    /\ Reject(SocketError, "network")
    /\ CloseRequest
    /\ UNCHANGED <<url, maxRedirects, connectTimeoutMs, responseTimeoutMs, chunks,
                   destroyed, bound, hops, lastResp, respCount>>

\* why the response callback rejects on a non-2xx status
StatusCause(resp, mr) ==
    IF resp.status >= 300 /\ resp.status < 400 /\ resp.location # NoLocation /\ mr <= 0
    THEN "redirect-exhaustion"
    ELSE "status"

\* the callback of client.get: the response headers have arrived
FetchResponse(resp) ==
    /\ promise = "pending"
    /\ UNCHANGED notFetch
    /\ reqState = "waiting"
    /\ ~DeadlinePassed
    /\ lastResp' = resp
    /\ respCount' = respCount + 1
    /\ IF FollowsRedirect(resp, maxRedirects)
       THEN \* resp.resume(); return fetchBuffer(location, {maxRedirects - 1, ...})
            /\ NewRequest(resp.location, maxRedirects - 1)
            /\ hops' = hops + 1
            /\ UNCHANGED <<promise, result, cause, connectTimeoutMs, responseTimeoutMs,
                           bound, callMs>>
       ELSE IF BadStatus(resp.status)
       THEN /\ Reject(HttpError(resp.status, url), StatusCause(resp, maxRedirects))
            /\ CloseRequest
            /\ UNCHANGED <<url, maxRedirects, connectTimeoutMs, responseTimeoutMs,
                           chunks, destroyed, bound, hops>>
       ELSE IF BadContentType(resp.ct)
       THEN /\ Reject(ContentTypeError(resp.ct, url), "content-type")
            /\ CloseRequest
            /\ UNCHANGED <<url, maxRedirects, connectTimeoutMs, responseTimeoutMs,
                           chunks, destroyed, bound, hops>>
       ELSE \* responseTimer = setTimeout(..., responseTimeoutMs); chunks = []
            /\ reqState' = "body"
            /\ responseTimer' = 0
            /\ sockIdle' = 0
            /\ phaseMs' = 0
            /\ trickled' = 0
            /\ chunks' = <<>>
            /\ UNCHANGED <<promise, result, cause, url, maxRedirects, connectTimeoutMs,
                           responseTimeoutMs, destroyed, bound, callMs, hops>>

\* resp.on('data'): socket activity restarts the socket's inactivity timer
FetchData(c) ==
    /\ promise = "pending"
    /\ UNCHANGED notFetch
    /\ reqState = "body"
    /\ ~DeadlinePassed
    /\ Len(chunks) < MaxChunks
    /\ chunks' = Append(chunks, c)
    /\ sockIdle' = 0
    /\ UNCHANGED <<phaseMs, promise, result, reqState, url, maxRedirects, connectTimeoutMs,
                   responseTimeoutMs, responseTimer, destroyed, bound, callMs, trickled, hops, lastResp, respCount,
                   cause>>

\* resp.on('end'): clearTimeout(responseTimer); resolve(Buffer.concat(chunks))
FetchEnd ==
    /\ promise = "pending"
    /\ UNCHANGED notFetch
    /\ reqState = "body"
    /\ ~DeadlinePassed
    /\ Resolve(Concat(chunks))
    /\ CloseRequest
    /\ UNCHANGED <<url, maxRedirects, connectTimeoutMs, responseTimeoutMs, chunks,
                   destroyed, bound, hops, lastResp, respCount>>

\* resp.on('error'): clearTimeout(responseTimer); reject(err)
FetchResponseError ==
    /\ promise = "pending"
    /\ UNCHANGED notFetch
    /\ reqState = "body"
    /\ ~DeadlinePassed
    /\ Reject(SocketError, "network")
    /\ CloseRequest
    /\ UNCHANGED <<url, maxRedirects, connectTimeoutMs, responseTimeoutMs, chunks,
                   destroyed, bound, hops, lastResp, respCount>>

\* some bytes of the response head arrive before the head is complete: no
\* callback of fetchBuffer runs, and the socket's inactivity timer starts afresh
FetchHeaderBytes ==
    /\ promise = "pending"
    /\ UNCHANGED notFetch
    /\ reqState = "waiting"
    /\ ~DeadlinePassed
    /\ trickled < MaxTrickle
    /\ trickled' = trickled + 1
    /\ sockIdle' = 0
    /\ UNCHANGED <<promise, result, reqState, url, maxRedirects, connectTimeoutMs,
                   responseTimeoutMs, responseTimer, chunks, destroyed, bound, hops,
                   lastResp, respCount, cause, phaseMs, callMs>>

\* the same arrival with no bound on how often the peer repeats it: the bytes reach
\* a socket that has been silent for a while, and its inactivity timer starts afresh
FetchHeaderTrickle ==
    /\ promise = "pending"
    /\ UNCHANGED notFetch
    /\ reqState = "waiting"
    /\ ~DeadlinePassed
    /\ sockIdle > 0
    /\ sockIdle' = 0
    /\ UNCHANGED <<promise, result, reqState, url, maxRedirects, connectTimeoutMs,
                   responseTimeoutMs, responseTimer, chunks, destroyed, bound, hops,
                   lastResp, respCount, cause, phaseMs, callMs, trickled>>

\* wall-clock time passes; a timer that is due fires before more time passes
Tick ==
    /\ promise = "pending"
    /\ UNCHANGED notFetch
    /\ reqState \in {"waiting", "body"}
    /\ NoTimerDue
    /\ sockIdle' = sockIdle + TickMs
    /\ responseTimer' = IF responseTimer >= 0 THEN responseTimer + TickMs ELSE -1
    /\ UNCHANGED <<promise, result, reqState, url, maxRedirects, connectTimeoutMs,
                   responseTimeoutMs, chunks, destroyed, bound, phaseMs, callMs, trickled, hops, lastResp, respCount, cause>>

\* Tick, with the wall-clock time that passes recorded
TimedTick ==
    /\ promise = "pending"
    /\ UNCHANGED notFetch
    /\ reqState \in {"waiting", "body"}
    /\ NoTimerDue
    /\ sockIdle' = sockIdle + TickMs
    /\ responseTimer' = IF responseTimer >= 0 THEN responseTimer + TickMs ELSE -1
    /\ phaseMs' = phaseMs + TickMs
    /\ callMs' = callMs + TickMs
    /\ UNCHANGED <<promise, result, reqState, url, maxRedirects, connectTimeoutMs,
                   responseTimeoutMs, chunks, destroyed, bound, trickled, hops, lastResp, respCount, cause>>

\* a timeout callback that tears the request down and forgets to reject
FetchConnectionTimeout_NoReject ==
    /\ promise = "pending"
    /\ UNCHANGED notFetch
    /\ ConnectTimerDue
    /\ destroyed' = TRUE
    /\ CloseRequest
    /\ UNCHANGED <<promise, result, cause, url, maxRedirects, connectTimeoutMs,
                   responseTimeoutMs, chunks, bound, hops, lastResp, respCount>>

\* req.setTimeout callback: req.destroy(); reject(new Error('Connection timeout ...'))
FetchConnectionTimeout ==
    /\ promise = "pending"
    /\ UNCHANGED notFetch
    /\ ConnectTimerDue
    /\ destroyed' = TRUE
    /\ Reject(ConnectionTimeoutError(url),
              IF reqState = "body" THEN "body-stall" ELSE "no-response")
    /\ CloseRequest
    /\ UNCHANGED <<url, maxRedirects, connectTimeoutMs, responseTimeoutMs, chunks,
                   bound, hops, lastResp, respCount>>

\* responseTimer callback: req.destroy(); reject(new Error('Response timeout ...'))
FetchResponseTimeout ==
    /\ promise = "pending"
    /\ UNCHANGED notFetch
    /\ ResponseTimerDue
    /\ destroyed' = TRUE
    /\ Reject(ResponseTimeoutError(url), "body-stall")
    /\ CloseRequest
    /\ UNCHANGED <<url, maxRedirects, connectTimeoutMs, responseTimeoutMs, chunks,
                   bound, hops, lastResp, respCount>>

\* the responses a server can give
Responses ==
    [status : Statuses, ct : ContentTypes, location : Urls \cup {NoLocation}]

FetchIdle ==
    /\ promise = "none"
    /\ result = NoValue
    /\ reqState = "idle"
    /\ url = "none"
    /\ maxRedirects = 0
    /\ connectTimeoutMs = 0
    /\ responseTimeoutMs = 0
    /\ sockIdle = 0
    /\ responseTimer = -1
    /\ chunks = <<>>
    /\ destroyed = FALSE
    /\ bound = 0
    /\ hops = 0
    /\ lastResp = NoResp
    /\ respCount = 0
    /\ cause = "none"
    /\ phaseMs = 0
    /\ callMs = 0
    /\ trickled = 0

\* the promise has been consumed by its awaiter: nothing of the call is left
ForgetFetch ==
    /\ promise' = "none"
    /\ result' = NoValue
    /\ reqState' = "idle"
    /\ url' = "none"
    /\ maxRedirects' = 0
    /\ connectTimeoutMs' = 0
    /\ responseTimeoutMs' = 0
    /\ sockIdle' = 0
    /\ responseTimer' = -1
    /\ chunks' = <<>>
    /\ destroyed' = FALSE
    /\ bound' = 0
    /\ hops' = 0
    /\ lastResp' = NoResp
    /\ respCount' = 0
    /\ cause' = "none"
    /\ phaseMs' = 0
    /\ callMs' = 0
    /\ trickled' = 0

(***************************************************************************)
(* A stand-alone caller of fetchBuffer, as the fetchBuffer tests are.      *)
(***************************************************************************)
CallerOptions ==
    { NoOptions,
      [maxRedirects |-> 0],
      [maxRedirects |-> 1],
      [connectTimeoutMs |-> 100, responseTimeoutMs |-> 200] }

\* fetchBuffer(baseUrl + '/...', options)
Call(u, options) ==
    /\ promise = "none"
    /\ calls < MaxCalls
    /\ fetchBuffer(u, options)
    /\ calls' = calls + 1
    /\ UNCHANGED <<zipVars, aiVars, handlerVars>>

\* the caller's await returns or throws
Return ==
    /\ promise \in {"resolved", "rejected"}
    /\ zpc = "off"
    /\ ForgetFetch
    /\ UNCHANGED notFetch

(***************************************************************************)
(* GET /api/photos/event/:eventId/zip                                      *)
(***************************************************************************)
PhotoTable ==
    { [id |-> <<"a", "1">>, url |-> "u1", mode |-> "single"],
      [id |-> <<"b", "2">>, url |-> "u2", mode |-> "gif"],
      [id |-> <<"0", "1", "2", "3", "4", "5", "6", "7", "8", "9">>,
       url |-> "u1", mode |-> "boomerang"] }

\* the rows of one event: distinct rows (id is the primary key), newest first
PhotoLists ==
    { l \in UNION { [1..n -> PhotoTable] : n \in 0..MaxPhotos } :
        \A j, k \in DOMAIN l : j # k => l[j].id # l[k].id }

\* what the storage CDN answers during an export, and how its bodies arrive
ZipResponses ==
    { [status |-> 200, ct |-> ImageJpeg, location |-> NoLocation],
      [status |-> 200, ct |-> TextHtml, location |-> NoLocation],
      [status |-> 404, ct |-> TextHtml, location |-> NoLocation],
      [status |-> 302, ct |-> NoContentType, location |-> "u3"] }
ZipChunks == {<<"a">>}

NoArchive ==
    [created |-> FALSE, piped |-> FALSE, entries |-> <<>>, written |-> 0,
     finalizeCalled |-> FALSE, finalized |-> FALSE, errored |-> FALSE]

NoHeaders == [contentType |-> "", contentDisposition |-> ""]

\* (photo.mode === 'gif' || photo.mode === 'boomerang') ? 'gif' : 'jpg'
Ext(photo) == IF photo.mode = "gif" \/ photo.mode = "boomerang" THEN "gif" ELSE "jpg"

\* an entry numbered by its place among the entries appended so far
EntryName_Packed(photo, k) ==
    [mode |-> photo.mode, pos |-> Len(archive.entries) + 1,
     id8 |-> Slice0(photo.id, IdSliceLen), ext |-> Ext(photo)]

\* photo.mode + '_' + (i + 1) + '_' + photo.id.slice(0, 8) + '.' + ext
EntryName(photo, k) ==
    [mode |-> photo.mode, pos |-> k + 1, id8 |-> Slice0(photo.id, IdSliceLen),
     ext |-> Ext(photo)]

\* a handler without the empty-list check
NothingToExport_Never(list) == FALSE

\* if (!photos.length)
NothingToExport(list) == Len(list) = 0

\* a loop body that appends whatever the fetch ended with
Fetched_Always(p) == TRUE

\* the try of the loop body reached archive.append: fetchBuffer did not throw
Fetched(p) == p = "resolved"

\* res.status(code).json({ error: message })
SendError(code, message) ==
    /\ resStatus' = code
    /\ resError' = message
    /\ headersSent' = TRUE
    /\ resHeaders' = [resHeaders EXCEPT !.contentType = "application/json"]

\* a catch that answers 500 without looking at res.headersSent
Catch_Unguarded(message) == SendError(500, message)

\* catch (error) { if (!res.headersSent) res.status(500).json({ error: error.message }) }
Catch(message) ==
    IF ~headersSent THEN SendError(500, message)
    ELSE UNCHANGED <<resStatus, resError, headersSent, resHeaders>>

\* the for statement at index k, with the archive as it is then: the next fetch is
\* started, or the loop is over and archive.finalize() is called
Loop(k, arch) ==
    /\ i' = k
    /\ IF k < Len(photos)
       THEN /\ fetchBuffer(photos[k + 1].url, NoOptions)
            /\ calls' = calls + 1
            /\ zpc' = "fetch"
            /\ archive' = arch
       ELSE /\ ForgetFetch
            /\ calls' = calls
            /\ zpc' = "finalize"
            /\ archive' = [arch EXCEPT !.finalizeCalled = TRUE]

\* await supabase.from('photos').select(...).eq(...).order(...) has settled
ZipPhotos(how) ==
    /\ zpc = "photos"
    /\ UNCHANGED notZip
    /\ lookup' = how
    /\ IF how = "throw"
       THEN /\ Catch("lookup failed")
            /\ zpc' = "done"
            /\ UNCHANGED photos
       ELSE /\ photos' = IF how = "data" THEN dbPhotos ELSE <<>>
            /\ IF NothingToExport(photos')
               THEN /\ SendError(404, "No photos found")
                    /\ zpc' = "done"
               ELSE /\ zpc' = "event"
                    /\ UNCHANGED <<resStatus, resError, headersSent, resHeaders>>
    /\ UNCHANGED <<fetchVars, calls, dbPhotos, i, skipped, archive, outcomes>>

\* await supabase.from('events').select('name')...single() has settled; the headers
\* are set, the archive is created and piped, and the loop starts
ZipEvent(how) ==
    /\ zpc = "event"
    /\ UNCHANGED notZip
    /\ IF how = "throw"
       THEN /\ Catch("lookup failed")
            /\ zpc' = "done"
            /\ UNCHANGED <<fetchVars, calls, i, skipped, archive>>
       ELSE /\ resHeaders' = [contentType |-> "application/zip",
                               contentDisposition |-> "attachment"]
            /\ skipped' = 0
            /\ Loop(0, [NoArchive EXCEPT !.created = TRUE, !.piped = TRUE])
            /\ UNCHANGED <<resStatus, resError, headersSent>>
    /\ UNCHANGED <<dbPhotos, photos, outcomes, lookup>>

\* await fetchBuffer(photo.url) has settled: append the entry or count it skipped,
\* then go on with the loop
ZipFetched ==
    /\ zpc = "fetch"
    /\ UNCHANGED notZip
    /\ promise \in {"resolved", "rejected"}
    /\ IF Fetched(promise)
       THEN /\ Loop(i + 1, [archive EXCEPT !.entries =
                     Append(@, [name |-> EntryName(photos[i + 1], i),
                                data |-> result.bytes,
                                index |-> i + 1,
                                resp |-> lastResp])])
            /\ skipped' = skipped
       ELSE /\ Loop(i + 1, archive)
            /\ skipped' = skipped + 1
    /\ outcomes' = Append(outcomes, IF promise = "resolved" THEN "ok" ELSE "fail")
    /\ UNCHANGED <<dbPhotos, photos, resStatus, resHeaders, headersSent, resError, lookup>>

\* the archiver processes a queued entry and writes it to the piped response: the
\* first write commits the response headers, with the default status 200
ArchiveWrite ==
    /\ archive.piped
    /\ UNCHANGED notZip
    /\ ~archive.errored
    /\ ~archive.finalized
    /\ archive.written < Len(archive.entries)
    /\ archive' = [archive EXCEPT !.written = @ + 1]
    /\ headersSent' = TRUE
    /\ resStatus' = IF headersSent THEN resStatus ELSE 200
    /\ UNCHANGED <<fetchVars, calls, zpc, dbPhotos, photos, i, skipped, resHeaders,
                   resError, outcomes, lookup>>

\* archive.on('error', function(err) { console.error(...) }): the archive fails
ArchiveError ==
    /\ archive.created
    /\ UNCHANGED notZip
    /\ ~archive.errored
    /\ ~archive.finalized
    /\ zpc \in {"fetch", "finalize"}
    /\ archive' = [archive EXCEPT !.errored = TRUE]
    /\ UNCHANGED <<fetchVars, calls, zpc, dbPhotos, photos, i, skipped, resStatus,
                   resHeaders, headersSent, resError, outcomes, lookup>>

\* await archive.finalize() resolves: every entry and the central directory are
\* written and the response is ended
ZipFinalized ==
    /\ zpc = "finalize"
    /\ UNCHANGED notZip
    /\ ~archive.errored
    /\ archive.written = Len(archive.entries)
    /\ archive' = [archive EXCEPT !.finalized = TRUE]
    /\ headersSent' = TRUE
    /\ resStatus' = IF headersSent THEN resStatus ELSE 200
    /\ zpc' = "done"
    /\ UNCHANGED <<fetchVars, calls, dbPhotos, photos, i, skipped, resHeaders, resError,
                   outcomes, lookup>>

\* await archive.finalize() rejects: the outer catch
ZipFinalizeFailed ==
    /\ zpc = "finalize"
    /\ UNCHANGED notZip
    /\ archive.errored
    /\ Catch("finalize failed")
    /\ zpc' = "done"
    /\ UNCHANGED <<fetchVars, calls, dbPhotos, photos, i, skipped, archive, outcomes,
                   lookup>>

ZipOff ==
    /\ zpc = "off"
    /\ dbPhotos = <<>>
    /\ photos = <<>>
    /\ i = 0
    /\ skipped = 0
    /\ resStatus = 0
    /\ resHeaders = NoHeaders
    /\ headersSent = FALSE
    /\ resError = ""
    /\ archive = NoArchive
    /\ outcomes = <<>>
    /\ lookup = "none"

(***************************************************************************)
(* generateAIImage, and restyle: the retry loop around it                  *)
(***************************************************************************)
\* AI_STYLES[styleKey] || AI_STYLES.anime, then style.name
StyleName(key) ==
    CASE key = "anime" -> "Anime Art"
      [] key = "vintage" -> "Vintage Film"
      [] OTHER -> "Anime Art"

StyleKeys == {"anime", "vintage", "nosuchstyle"}

\* what the endpoint can answer one request with: status 0 is no response at
\* all (network error, axios timeout); wait is the x-wait-estimated-time header,
\* -1 when the response has none; decodable: the body is an image sharp can read
Replies ==
    { [status |-> 200, wait |-> -1, decodable |-> TRUE],
      [status |-> 200, wait |-> -1, decodable |-> FALSE],
      [status |-> 503, wait |-> 5, decodable |-> FALSE],
      [status |-> 503, wait |-> 20, decodable |-> FALSE],
      [status |-> 503, wait |-> -1, decodable |-> FALSE],
      [status |-> 500, wait |-> -1, decodable |-> FALSE],
      [status |-> 0, wait |-> -1, decodable |-> FALSE] }

NoResult == [success |-> FALSE, error |-> "none", waitTime |-> 0, style |-> ""]

\* a catch that ignores the header and always reports the default
WaitTimeOf_HeaderIgnored(reply) == DefaultWaitTime

\* error.response.headers['x-wait-estimated-time'] || 30
WaitTimeOf(reply) == IF reply.wait = -1 THEN DefaultWaitTime ELSE reply.wait

\* a catch without the 503 branch
IsModelLoading_Never(reply) == FALSE

\* error.response?.status === 503
IsModelLoading(reply) == reply.status = 503

\* generateAIImage(imageBuffer, styleKey): what it returns or throws, given whether
\* the frame decodes and, when a request is sent, what the endpoint answers
generateAIImage(ok, key, reply) ==
    IF ~ok
    THEN \* sharp(imageBuffer)...toBuffer() throws before the try
         [success |-> FALSE, error |-> "input", waitTime |-> 0, style |-> ""]
    ELSE IF reply.status = 200 /\ reply.decodable
    THEN [success |-> TRUE, error |-> "", waitTime |-> 0, style |-> StyleName(key)]
    ELSE IF IsModelLoading(reply)
    THEN \* throw new Error(`MODEL_LOADING:${waitTime}`)
         [success |-> FALSE, error |-> "MODEL_LOADING", waitTime |-> WaitTimeOf(reply),
          style |-> ""]
    ELSE \* throw new Error(`AI generation failed: ${error.message}`)
         [success |-> FALSE, error |-> "AI generation failed", waitTime |-> 0,
          style |-> ""]

\* the fixed retry ceiling: the most attempts one restyle makes
RetryCeiling == 3

\* a retry loop that allows one attempt past the ceiling
Attempt_OneMore(reply) ==
    /\ aiState = "ATTEMPT"
    /\ UNCHANGED notAI
    /\ LET r == generateAIImage(frameOk, styleKey, reply) IN
       /\ aiResult' = r
       /\ attempts' = attempts + 1
       /\ replies' = IF frameOk THEN Append(replies, reply) ELSE replies
       /\ IF r.success
          THEN /\ aiState' = "DONE"
               /\ UNCHANGED <<notes, waitTime>>
          ELSE IF r.error = "MODEL_LOADING"
          THEN IF session = "down"
               THEN \* the session went while the attempt was in flight
                    /\ aiState' = "CANCELLED"
                    /\ UNCHANGED <<notes, waitTime>>
               ELSE IF attempts + 1 <= RetryCeiling
               THEN /\ notes' = Append(notes, [style |-> StyleName(styleKey),
                                               wait |-> r.waitTime])
                    /\ waitTime' = r.waitTime
                    /\ aiState' = "WAIT"
               ELSE /\ aiState' = "UNAVAILABLE"
                    /\ UNCHANGED <<notes, waitTime>>
          ELSE /\ aiState' = "FAILED"
               /\ UNCHANGED <<notes, waitTime>>
    /\ UNCHANGED <<session, styleKey, frameOk, waits>>

\* ATTEMPT: one call of generateAIImage and the transition its outcome selects
Attempt(reply) ==
    /\ aiState = "ATTEMPT"
    /\ UNCHANGED notAI
    /\ LET r == generateAIImage(frameOk, styleKey, reply) IN
       /\ aiResult' = r
       /\ attempts' = attempts + 1
       /\ replies' = IF frameOk THEN Append(replies, reply) ELSE replies
       /\ IF r.success
          THEN /\ aiState' = "DONE"
               /\ UNCHANGED <<notes, waitTime>>
          ELSE IF r.error = "MODEL_LOADING"
          THEN IF session = "down"
               THEN \* the session went while the attempt was in flight
                    /\ aiState' = "CANCELLED"
                    /\ UNCHANGED <<notes, waitTime>>
               ELSE IF attempts + 1 < RetryCeiling
               THEN \* the progress notification goes out before the sleep starts
                    /\ notes' = Append(notes, [style |-> StyleName(styleKey),
                                               wait |-> r.waitTime])
                    /\ waitTime' = r.waitTime
                    /\ aiState' = "WAIT"
               ELSE /\ aiState' = "UNAVAILABLE"
                    /\ UNCHANGED <<notes, waitTime>>
          ELSE /\ aiState' = "FAILED"
               /\ UNCHANGED <<notes, waitTime>>
    /\ UNCHANGED <<session, styleKey, frameOk, waits>>

\* WAIT(n) is over: the next attempt
WaitOver ==
    /\ aiState = "WAIT"
    /\ UNCHANGED notAI
    /\ waits' = Append(waits, waitTime)
    /\ waitTime' = 0
    /\ aiState' = "ATTEMPT"
    /\ UNCHANGED <<session, styleKey, frameOk, attempts, notes, replies, aiResult>>

\* a teardown that the sleeping retry loop does not notice
Teardown_Unnoticed ==
    /\ aiState \in {"ATTEMPT", "WAIT"}
    /\ session = "up"
    /\ UNCHANGED notAI
    /\ session' = "down"
    /\ UNCHANGED <<aiState, waitTime, styleKey, frameOk, attempts, waits, notes, replies,
                   aiResult>>

\* the owning session is torn down (client disconnect): a wait is abandoned at
\* once; an attempt in flight runs to its end, since generateAIImage takes no
\* cancellation signal
Teardown ==
    /\ aiState \in {"ATTEMPT", "WAIT"}
    /\ session = "up"
    /\ UNCHANGED notAI
    /\ session' = "down"
    /\ IF aiState = "WAIT"
       THEN /\ aiState' = "CANCELLED"
            /\ waitTime' = 0
       ELSE UNCHANGED <<aiState, waitTime>>
    /\ UNCHANGED <<styleKey, frameOk, attempts, waits, notes, replies, aiResult>>

AIOff ==
    /\ aiState = "off"
    /\ session = "up"
    /\ styleKey = "anime"
    /\ frameOk = TRUE
    /\ attempts = 0
    /\ waitTime = 0
    /\ waits = <<>>
    /\ notes = <<>>
    /\ replies = <<>>
    /\ aiResult = NoResult

(***************************************************************************)
(* Branding: hasBrandingContent (routes/photos.js) and applyBrandingOverlay *)
(* (services/imageProcessor.js).  A field of the branding JSON is a tagged  *)
(* value, so that undefined, null, '' and '  ' stay different things.       *)
(***************************************************************************)
Undefined == [t |-> "undefined", s |-> <<>>, b |-> FALSE]
Null == [t |-> "null", s |-> <<>>, b |-> FALSE]
Str(s) == [t |-> "string", s |-> s, b |-> FALSE]
Bool(b) == [t |-> "boolean", s |-> <<>>, b |-> b]

\* the characters String.prototype.trim removes
WhiteSpace == {" ", "\t", "\n"}

RECURSIVE TrimStart(_)
TrimStart(s) ==
    IF s # <<>> /\ Head(s) \in WhiteSpace THEN TrimStart(Tail(s)) ELSE s

RECURSIVE TrimEnd(_)
TrimEnd(s) ==
    IF s # <<>> /\ s[Len(s)] \in WhiteSpace THEN TrimEnd(SubSeq(s, 1, Len(s) - 1)) ELSE s

\* String.prototype.trim
Trim(s) == TrimEnd(TrimStart(s))

\* ToBoolean of a branding field
Truthy(v) ==
    CASE v.t = "string" -> v.s # <<>>
      [] v.t = "boolean" -> v.b
      [] OTHER -> FALSE

\* the text fields and the flags a branding JSON is stored with
BrandingTexts == { Undefined, Null, Str(<<>>), Str(<<" ", " ">>), Str(<<"H", "i">>),
                   Str(<<" ", "H", "i">>) }
BrandingFlags == { Undefined, Bool(TRUE), Bool(FALSE), Str(<<"y", "e", "s">>) }

\* events.branding: null, or an object with any of the three fields
NoBranding ==
    [t |-> "null", footerText |-> Undefined, overlayText |-> Undefined,
     showDate |-> Undefined]
Brandings ==
    {NoBranding} \cup
    [t : {"object"}, footerText : BrandingTexts, overlayText : BrandingTexts,
     showDate : BrandingFlags]

\* a helper that takes any truthy showDate for an explicit true
hasBrandingContent_TruthyDate(branding) ==
    IF branding.t = "null" THEN FALSE
    ELSE LET hasFooter == Truthy(branding.footerText)
                            /\ Trim(branding.footerText.s) # <<>>
             hasOverlay == Truthy(branding.overlayText)
                            /\ Trim(branding.overlayText.s) # <<>>
             hasDate == Truthy(branding.showDate)
         IN  hasFooter \/ hasOverlay \/ hasDate

\* function hasBrandingContent(branding)
hasBrandingContent(branding) ==
    IF branding.t = "null" THEN FALSE
    ELSE LET hasFooter == Truthy(branding.footerText)
                            /\ Trim(branding.footerText.s) # <<>>
             hasOverlay == Truthy(branding.overlayText)
                            /\ Trim(branding.overlayText.s) # <<>>
             hasDate == branding.showDate = Bool(TRUE)
         IN  hasFooter \/ hasOverlay \/ hasDate

\* an image: the frame it was made from, how it was resized, and the bands
\* composited onto it
NoBand == [present |-> FALSE, text |-> <<>>, date |-> FALSE]
Plain(frame, size) ==
    [frame |-> frame, size |-> size, footer |-> NoBand, overlay |-> NoBand]
NoImage == Plain("none", 0)

\* the cap of the stored photo: resize(2048, 2048, { fit: 'inside', withoutEnlargement })
PhotoSize == 2048
\* the cap of the thumbnail: resize(400, 400, { fit: 'inside' })
ThumbSize == 400

\* const { overlayText = '', footerText = '', showDate = true } = branding
Default(v, d) == IF v.t = "undefined" THEN d ELSE v

\* the footer band of applyBrandingOverlay: if (footerText || showDate) { ... }
FooterBand(branding) ==
    LET footerText == Default(branding.footerText, Str(<<>>))
        showDate == Default(branding.showDate, Bool(TRUE))
    IN  IF Truthy(footerText) \/ Truthy(showDate)
        THEN \* displayText = footerText || dateStr, and the date on a second
             \* line when both are there
             [present |-> TRUE,
              text |-> IF Truthy(footerText) THEN footerText.s ELSE <<>>,
              date |-> Truthy(showDate)]
        ELSE NoBand

\* the top band of applyBrandingOverlay: if (overlayText) { ... }
OverlayBand(branding) ==
    LET overlayText == Default(branding.overlayText, Str(<<>>))
    IN  IF Truthy(overlayText)
        THEN [present |-> TRUE, text |-> overlayText.s, date |-> FALSE]
        ELSE NoBand

\* applyBrandingOverlay(photoBuffer, branding), when metadata() and composite()
\* succeed
applyBrandingOverlay(photoBuffer, branding) ==
    LET footer == FooterBand(branding)
        overlay == OverlayBand(branding)
    IN  IF ~footer.present /\ ~overlay.present
        THEN photoBuffer
        ELSE [photoBuffer EXCEPT !.footer = footer, !.overlay = overlay]

(***************************************************************************)
(* The artifact store the request handlers share, and one request in       *)
(* flight: req, res, and the locals of the handler that serves it.         *)
(***************************************************************************)
EventIds == {"e1", "e2"}
\* uuidv4(): the ids a handler can draw
PhotoIds == {"p1", "p2"}
\* Date.now() at the time of an upload
Timestamps == {1700}
Frames == {"f1", "f2"}

NoKey == [event |-> "", dir |-> "", id |-> "", ts |-> 0, suffix |-> ""]
\* 'events/' + eventId + '/photos/' + photoId + '_' + timestamp + '.jpg'
PhotoKey(eventId, id, ts) ==
    [event |-> eventId, dir |-> "photos", id |-> id, ts |-> ts, suffix |-> ".jpg"]
\* 'events/' + eventId + '/thumbs/' + photoId + '_thumb.jpg'
ThumbKey(eventId, id) ==
    [event |-> eventId, dir |-> "thumbs", id |-> id, ts |-> 0, suffix |-> "_thumb.jpg"]
\* 'events/' + eventId + '/gifs/' + gifId + '.gif'
GifKey(eventId, id) ==
    [event |-> eventId, dir |-> "gifs", id |-> id, ts |-> 0, suffix |-> ".gif"]
\* 'events/' + eventId + '/strips/' + stripId + '.jpg'
StripKey(eventId, id) ==
    [event |-> eventId, dir |-> "strips", id |-> id, ts |-> 0, suffix |-> ".jpg"]

NoEvent == [id |-> "", status |-> "", branding |-> NoBranding]
NoReq == [file |-> "none", files |-> <<>>, eventId |-> "", mode |-> "", id |-> ""]
NoRes == [status |-> 0, error |-> "", id |-> ""]

\* res.status(code).json({ error: text }): the handler is done
Respond(code, text) ==
    /\ res' = [status |-> code, error |-> text, id |-> ""]
    /\ hpc' = "done"

\* res.json({ success: true, ... })
RespondOk(id) ==
    /\ res' = [status |-> 200, error |-> "", id |-> id]
    /\ hpc' = "done"

\* supabase.from('events').select('*').eq('id', eventId).single(): data
EventRows(eventId) == { e \in tblEvents : e.id = eventId }

\* how a lookup with .single() can end for the rows it matches
LookupOutcomes(rows) == (IF rows = {} THEN {} ELSE {"data"}) \cup {"null", "throw"}

(***************************************************************************)
(* POST /api/photos/upload                                                 *)
(***************************************************************************)

\* event.branding && hasBrandingContent(event.branding)
WantsOverlay(e) == e.branding.t # "null" /\ hasBrandingContent(e.branding)

\* an upload that starts the event lookup before it has looked at the request
Validate_Late(r) == "ok"

\* if (!req.file) ... if (!eventId) ...
Validate(r) ==
    IF r.file = "none" THEN "No photo provided"
    ELSE IF r.eventId = "" THEN "Event ID required"
    ELSE "ok"

\* the handler runs up to its first await: the events lookup
UploadStart ==
    /\ route = "upload" /\ hpc = "start"
    /\ UNCHANGED notUpload
    /\ IF Validate(req) # "ok"
       THEN Respond(400, Validate(req))
       ELSE /\ hpc' = "event"
            /\ UNCHANGED res
    /\ UNCHANGED <<route, req, event, storeVars, uploadVars>>

\* the events lookup returns; uuidv4(), Date.now(), and the resize is started
UploadEvent(how, id, ts) ==
    /\ route = "upload" /\ hpc = "event"
    /\ UNCHANGED notUpload
    /\ how \in LookupOutcomes(EventRows(req.eventId))
    /\ CASE how = "throw" ->
              /\ Respond(500, "lookup")
              /\ UNCHANGED <<event, photoId, storageKey>>
         [] how = "null" ->
              /\ Respond(404, "Event not found")
              /\ UNCHANGED <<event, photoId, storageKey>>
         [] OTHER ->
              /\ event' \in EventRows(req.eventId)
              /\ photoId' = id
              /\ storageKey' = PhotoKey(req.eventId, id, ts)
              /\ hpc' = "resize"
              /\ UNCHANGED res
    /\ UNCHANGED <<route, req, storeVars, processedBuffer, thumbBuffer, overlayRun>>

\* an overlay failure that is left to the handler's outer catch
UploadOverlay_Abort(ok) ==
    /\ route = "upload" /\ hpc = "overlay"
    /\ UNCHANGED notUpload
    /\ IF ok
       THEN /\ processedBuffer' = applyBrandingOverlay(processedBuffer, event.branding)
            /\ overlayRun' = "applied"
            /\ hpc' = "store"
            /\ UNCHANGED res
       ELSE /\ overlayRun' = "failed"
            /\ Respond(500, "overlay")
            /\ UNCHANGED processedBuffer
    /\ UNCHANGED <<route, req, event, storeVars, photoId, storageKey, thumbBuffer>>

\* sharp(req.file.buffer).resize(2048, ...).toBuffer() settles; then the try
\* block around the overlay runs up to its await
UploadResized(ok) ==
    /\ route = "upload" /\ hpc = "resize"
    /\ UNCHANGED notUpload
    /\ IF ~ok
       THEN /\ Respond(500, "resize")
            /\ UNCHANGED <<processedBuffer, overlayRun>>
       ELSE /\ processedBuffer' = Plain(req.file, PhotoSize)
            /\ UNCHANGED res
            /\ IF WantsOverlay(event)
               THEN hpc' = "overlay" /\ UNCHANGED overlayRun
               ELSE hpc' = "store" /\ overlayRun' = "skipped"
    /\ UNCHANGED <<route, req, event, storeVars, photoId, storageKey, thumbBuffer>>

\* await applyBrandingOverlay(...) settles; a rejection is caught and logged
UploadOverlay(ok) ==
    /\ route = "upload" /\ hpc = "overlay"
    /\ UNCHANGED notUpload
    /\ IF ok
       THEN /\ processedBuffer' = applyBrandingOverlay(processedBuffer, event.branding)
            /\ overlayRun' = "applied"
       ELSE /\ overlayRun' = "failed"
            /\ UNCHANGED processedBuffer
    /\ hpc' = "store"
    /\ UNCHANGED <<route, req, res, event, storeVars, photoId, storageKey, thumbBuffer>>

\* await uploadToStorage(processedBuffer, storageKey, 'image/jpeg') settles
UploadStored(ok) ==
    /\ route = "upload" /\ hpc = "store"
    /\ UNCHANGED notUpload
    /\ IF ok
       THEN /\ bucket' = bucket \cup {[key |-> storageKey, data |-> processedBuffer]}
            /\ hpc' = "thumb"
            /\ UNCHANGED res
       ELSE /\ Respond(500, "storage")
            /\ UNCHANGED bucket
    /\ UNCHANGED <<route, req, event, tblEvents, tblPhotos, emits, uploadVars>>

\* sharp(processedBuffer).resize(400, 400, ...).toBuffer() settles
UploadThumbResized(ok) ==
    /\ route = "upload" /\ hpc = "thumb"
    /\ UNCHANGED notUpload
    /\ IF ok
       THEN /\ thumbBuffer' = [processedBuffer EXCEPT !.size = ThumbSize]
            /\ hpc' = "thumbStore"
            /\ UNCHANGED res
       ELSE /\ Respond(500, "resize")
            /\ UNCHANGED thumbBuffer
    /\ UNCHANGED <<route, req, event, storeVars, photoId, storageKey, processedBuffer,
                   overlayRun>>

\* await uploadToStorage(thumbBuffer, thumbKey, 'image/jpeg') settles
UploadThumbStored(ok) ==
    /\ route = "upload" /\ hpc = "thumbStore"
    /\ UNCHANGED notUpload
    /\ IF ok
       THEN /\ bucket' = bucket \cup {[key |-> ThumbKey(req.eventId, photoId),
                                       data |-> thumbBuffer]}
            /\ hpc' = "qr"
            /\ UNCHANGED res
       ELSE /\ Respond(500, "storage")
            /\ UNCHANGED bucket
    /\ UNCHANGED <<route, req, event, tblEvents, tblPhotos, emits, uploadVars>>

\* await generateQRDataURL(galleryUrl) settles
UploadQR(ok) ==
    /\ route = "upload" /\ hpc = "qr"
    /\ UNCHANGED notUpload
    /\ IF ok
       THEN hpc' = "insert" /\ UNCHANGED res
       ELSE Respond(500, "qr")
    /\ UNCHANGED <<route, req, event, storeVars, uploadVars>>

\* the row supabase.from('photos').insert({ ... }) is given
PhotoRow ==
    [id |-> photoId, event_id |-> req.eventId, storage_key |-> storageKey,
     url |-> storageKey, thumb_url |-> ThumbKey(req.eventId, photoId),
     mode |-> req.mode]

\* await supabase.from('photos').insert(...) settles: an { error } is logged only
UploadInserted(how) ==
    /\ route = "upload" /\ hpc = "insert"
    /\ UNCHANGED notUpload
    /\ CASE how = "ok" ->
              /\ tblPhotos' = tblPhotos \cup {PhotoRow}
              /\ hpc' = "analytics"
              /\ UNCHANGED res
         [] how = "error" ->
              /\ hpc' = "analytics"
              /\ UNCHANGED <<tblPhotos, res>>
         [] OTHER ->
              /\ Respond(500, "insert")
              /\ UNCHANGED tblPhotos
    /\ UNCHANGED <<route, req, event, tblEvents, bucket, emits, uploadVars>>

\* the analytics insert settles (its failure is swallowed); 'photo-taken' is
\* emitted when the app has a socket server; res.json({ success: true, ... })
UploadAnalytics(io) ==
    /\ route = "upload" /\ hpc = "analytics"
    /\ UNCHANGED notUpload
    /\ emits' = IF io
                THEN Append(emits, [room |-> req.eventId, name |-> "photo-taken",
                                    photoId |-> photoId])
                ELSE emits
    /\ RespondOk(photoId)
    /\ UNCHANGED <<route, req, event, tblEvents, tblPhotos, bucket, uploadVars>>

UploadOff ==
    /\ photoId = ""
    /\ storageKey = NoKey
    /\ processedBuffer = NoImage
    /\ thumbBuffer = NoImage
    /\ overlayRun = "none"

(***************************************************************************)
(* POST /api/photos/strip and createPhotoStrip (services/imageProcessor.js) *)
(***************************************************************************)
\* createPhotoStrip: const stripWidth = 640 ... const footerHeight = 80
stripWidth == 640
photoHeight == 480
padding == 20
headerHeight == 80
footerHeight == 80
\* for (let i = 0; i < photos.length && i < 4; i++)
StripFrameCap == 4
\* upload.array('photos', 4): the most files multer lets through
MaxStripFiles == 4

\* a strip whose padding is counted once per frame
StripHeight_PaddingPerFrame(n) ==
    photoHeight * n + padding * n + headerHeight + footerHeight

\* photoHeight * photos.length + padding * (photos.length + 1) + headerHeight + footerHeight
StripHeight(n) ==
    photoHeight * n + padding * (n + 1) + headerHeight + footerHeight

\* top: headerHeight + padding + i * (photoHeight + padding)
FrameTop(k) == headerHeight + padding + k * (photoHeight + padding)

\* sharp(photos[i]).resize(stripWidth - padding * 2, photoHeight, { fit: 'cover' })
Cover(frame) ==
    [frame |-> frame, width |-> stripWidth - padding * 2, height |-> photoHeight]

\* footerText || new Date().toLocaleDateString()
StripFooter(branding) ==
    LET footerText == Default(branding.footerText, Str(<<>>))
    IN  IF Truthy(footerText)
        THEN [present |-> TRUE, text |-> footerText.s, date |-> FALSE]
        ELSE [present |-> TRUE, text |-> <<>>, date |-> TRUE]

\* event ? event.branding : {}
EmptyBranding ==
    [t |-> "object", footerText |-> Undefined, overlayText |-> Undefined,
     showDate |-> Undefined]

NoStrip == [width |-> 0, height |-> 0, footer |-> NoBand, inputs |-> <<>>]

\* the loop goes on to its next frame
MoreFrames(k, n) == k < n /\ k < StripFrameCap

\* upload.array('photos', 4): multer hands the request to the handler, or, for
\* more than four files in the field, fails it with LIMIT_UNEXPECTED_FILE, which
\* the error handler of the app answers with err.status || 500
StripMulter ==
    /\ route = "strip" /\ hpc = "multer"
    /\ UNCHANGED notStrip
    /\ IF Len(req.files) > MaxStripFiles
       THEN Respond(500, "Unexpected field")
       ELSE hpc' = "event" /\ UNCHANGED res
    /\ UNCHANGED <<route, req, event, storeVars, stripVars>>

\* the events lookup returns; createPhotoStrip runs up to its first await
StripEvent(how) ==
    /\ route = "strip" /\ hpc = "event"
    /\ UNCHANGED notStrip
    /\ how \in LookupOutcomes(EventRows(req.eventId))
    /\ IF how = "throw"
       THEN /\ Respond(500, "lookup")
            /\ UNCHANGED <<event, stripVars>>
       ELSE /\ IF how = "data"
               THEN event' \in EventRows(req.eventId)
               ELSE event' = NoEvent
            /\ stripPhotos' = req.files
            /\ stripBranding' = IF how = "data" THEN event'.branding ELSE EmptyBranding
            /\ stripHeight' = StripHeight(Len(req.files))
            /\ IF stripBranding'.t = "null"
               THEN \* destructuring null throws; the default {} is for undefined only
                    /\ Respond(500, "branding")
                    /\ UNCHANGED <<compositeInputs, stripI, stripBuffer>>
               ELSE /\ compositeInputs' = <<>>
                    /\ stripI' = 0
                    /\ hpc' = IF MoreFrames(0, Len(req.files)) THEN "frame" ELSE "composite"
                    /\ UNCHANGED <<res, stripBuffer>>
    /\ UNCHANGED <<route, req, storeVars>>

\* the resize of photos[i] settles; the loop goes on
StripFrameResized(ok) ==
    /\ route = "strip" /\ hpc = "frame"
    /\ UNCHANGED notStrip
    /\ IF ok
       THEN /\ compositeInputs' =
                  Append(compositeInputs,
                         [input |-> Cover(stripPhotos[stripI + 1]),
                          top |-> FrameTop(stripI), left |-> padding])
            /\ stripI' = stripI + 1
            /\ hpc' = IF MoreFrames(stripI + 1, Len(stripPhotos))
                      THEN "frame" ELSE "composite"
            /\ UNCHANGED res
       ELSE /\ Respond(500, "resize")
            /\ UNCHANGED <<compositeInputs, stripI>>
    /\ UNCHANGED <<route, req, event, storeVars, stripPhotos, stripBranding, stripHeight,
                   stripBuffer>>

\* sharp(Buffer.from(svgBase)).composite(compositeInputs)...toBuffer() settles;
\* uuidv4() and the storage write is started
StripComposited(ok, id) ==
    /\ route = "strip" /\ hpc = "composite"
    /\ UNCHANGED notStrip
    /\ IF ok
       THEN /\ stripBuffer' = [width |-> stripWidth, height |-> stripHeight,
                               footer |-> StripFooter(stripBranding),
                               inputs |-> compositeInputs]
            /\ req' = [req EXCEPT !.id = id]
            /\ hpc' = "store"
            /\ UNCHANGED res
       ELSE /\ Respond(500, "composite")
            /\ UNCHANGED <<stripBuffer, req>>
    /\ UNCHANGED <<route, event, storeVars, stripPhotos, stripBranding, stripHeight,
                   compositeInputs, stripI>>

\* await uploadToStorage(stripBuffer, storageKey, 'image/jpeg') settles
StripStored(ok) ==
    /\ route = "strip" /\ hpc = "store"
    /\ UNCHANGED notStrip
    /\ IF ok
       THEN /\ bucket' = bucket \cup {[key |-> StripKey(req.eventId, req.id),
                                       data |-> stripBuffer]}
            /\ hpc' = "qr"
            /\ UNCHANGED res
       ELSE /\ Respond(500, "storage")
            /\ UNCHANGED bucket
    /\ UNCHANGED <<route, req, event, tblEvents, tblPhotos, emits, stripVars>>

\* await generateQRDataURL(galleryUrl) settles
StripQR(ok) ==
    /\ route = "strip" /\ hpc = "qr"
    /\ UNCHANGED notStrip
    /\ IF ok
       THEN hpc' = "insert" /\ UNCHANGED res
       ELSE Respond(500, "qr")
    /\ UNCHANGED <<route, req, event, storeVars, stripVars>>

\* await supabase.from('photos').insert(...) settles: its result is not looked at
StripInserted(how) ==
    /\ route = "strip" /\ hpc = "insert"
    /\ UNCHANGED notStrip
    /\ CASE how = "ok" ->
              /\ tblPhotos' = tblPhotos \cup
                    {[id |-> req.id, event_id |-> req.eventId,
                      storage_key |-> StripKey(req.eventId, req.id),
                      url |-> StripKey(req.eventId, req.id), thumb_url |-> NoKey,
                      mode |-> "strip"]}
              /\ RespondOk(req.id)
         [] how = "error" ->
              /\ RespondOk(req.id)
              /\ UNCHANGED tblPhotos
         [] OTHER ->
              /\ Respond(500, "insert")
              /\ UNCHANGED tblPhotos
    /\ UNCHANGED <<route, req, event, tblEvents, bucket, emits, stripVars>>

StripOff ==
    /\ stripPhotos = <<>>
    /\ stripBranding = NoBranding
    /\ stripHeight = 0
    /\ compositeInputs = <<>>
    /\ stripI = 0
    /\ stripBuffer = NoStrip

(***************************************************************************)
(* createGIF and createBoomerang (services/gif.js), POST /api/photos/gif   *)
(***************************************************************************)
\* createGIF: fps = 4, width = 800, loop = 0
DefaultFps == 4
DefaultWidth == 800
DefaultLoop == 0
\* createBoomerang: { ...options, fps: 8 }
BoomerangFps == 8

\* the calls of createGIF that can be in progress: call 1 is the one the request
\* in flight makes, the others belong to concurrent callers
GifCallIds == 1..MaxGifCalls
\* uuidv4() of `photobooth_gif_${uuidv4()}`
TmpDirs == {"d1", "d2"}

RECURSIVE Reverse(_)
\* Array.prototype.reverse
Reverse(q) == IF q = <<>> THEN <<>> ELSE Append(Reverse(Tail(q)), Head(q))

\* a boomerang that reverses the caller's array in place:
\* [...imageBuffers, ...imageBuffers.reverse()]
Boomerang_InPlace(imageBuffers) ==
    [boomerangFrames |-> imageBuffers \o Reverse(imageBuffers),
     imageBuffers |-> Reverse(imageBuffers)]

\* const boomerangFrames = [...imageBuffers, ...[...imageBuffers].reverse()]:
\* the list handed to createGIF, and the caller's array afterwards
Boomerang(imageBuffers) ==
    [boomerangFrames |-> imageBuffers \o Reverse(imageBuffers),
     imageBuffers |-> imageBuffers]

\* const { fps = 4, width = 800, loop = 0 } = options
LoopOf(options) ==
    IF "loop" \in DOMAIN options THEN options.loop ELSE DefaultLoop
FpsOf(options) ==
    IF "fps" \in DOMAIN options THEN options.fps ELSE DefaultFps

\* { ...options, fps: 8 }
WithFps(options, fps) ==
    [f \in DOMAIN options \cup {"fps"} |-> IF f = "fps" THEN fps ELSE options[f]]

NoGif == [frames |-> <<>>, fps |-> 0, loop |-> 0, width |-> 0]
NoCall ==
    [pc |-> "idle", kind |-> "", arg |-> <<>>, options |-> <<>>,
     callerFrames |-> <<>>, imageBuffers |-> <<>>, fps |-> 0, loop |-> 0,
     tmpDir |-> "", i |-> 0, result |-> NoGif]

\* the frame files of a directory, in the order of frame_%03d.jpg
RECURSIVE FramesFrom(_, _, _)
FramesFrom(files, dir, k) ==
    LET fk == { f \in files : f.dir = dir /\ f.name = k }
    IN  IF fk = {} THEN <<>>
        ELSE <<(CHOOSE f \in fk : TRUE).data>> \o FramesFrom(files, dir, k + 1)

\* fs.rmSync(tmpDir, { recursive: true, force: true })
RmSync(dir) ==
    /\ fsDirs' = fsDirs \ {dir}
    /\ fsFiles' = { f \in fsFiles : f.dir # dir }

\* a createGIF that leaves its directory behind when it throws
Throw_NoCleanup(c) ==
    /\ gifCalls' = [gifCalls EXCEPT ![c].pc = "thrown"]
    /\ UNCHANGED <<fsDirs, fsFiles>>

\* an exception leaves the try block: finally { fs.rmSync(tmpDir, ...) }
Throw(c) ==
    /\ gifCalls' = [gifCalls EXCEPT ![c].pc = "thrown"]
    /\ RmSync(gifCalls[c].tmpDir)

\* a createGIF that names its directory without the uuid: every call uses the
\* same one
StartGif_SharedDir(c, kind, frames, options, dir) ==
    /\ gifCalls[c].pc = "idle"
    /\ dir = "d1"
    /\ usedDirs' = usedDirs \cup {dir}
    /\ fsDirs' = fsDirs \cup {dir}
    /\ UNCHANGED fsFiles
    /\ LET b == Boomerang(frames)
           list == IF kind = "boomerang" THEN b.boomerangFrames ELSE frames
           opts == IF kind = "boomerang" THEN WithFps(options, BoomerangFps)
                   ELSE options
       IN  gifCalls' = [gifCalls EXCEPT ![c] =
              [pc |-> IF list = <<>> THEN "ffmpeg" ELSE "frame",
               kind |-> kind,
               arg |-> frames,
               options |-> options,
               callerFrames |-> IF kind = "boomerang" THEN b.imageBuffers ELSE frames,
               imageBuffers |-> list,
               fps |-> FpsOf(opts),
               loop |-> LoopOf(opts),
               tmpDir |-> dir,
               i |-> 0,
               result |-> NoGif]]

\* createGIF(imageBuffers, options) up to its first await: mkdirSync, and the
\* loop up to the first toFile; createBoomerang builds the list first
StartGif(c, kind, frames, options, dir) ==
    /\ gifCalls[c].pc = "idle"
    /\ dir \notin usedDirs
    /\ usedDirs' = usedDirs \cup {dir}
    /\ fsDirs' = fsDirs \cup {dir}
    /\ UNCHANGED fsFiles
    /\ LET b == Boomerang(frames)
           list == IF kind = "boomerang" THEN b.boomerangFrames ELSE frames
           opts == IF kind = "boomerang" THEN WithFps(options, BoomerangFps)
                   ELSE options
       IN  gifCalls' = [gifCalls EXCEPT ![c] =
              [pc |-> IF list = <<>> THEN "ffmpeg" ELSE "frame",
               kind |-> kind,
               arg |-> frames,
               options |-> options,
               callerFrames |-> IF kind = "boomerang" THEN b.imageBuffers ELSE frames,
               imageBuffers |-> list,
               fps |-> FpsOf(opts),
               loop |-> LoopOf(opts),
               tmpDir |-> dir,
               i |-> 0,
               result |-> NoGif]]

\* sharp(imageBuffers[i]).resize(width, ...).toFile(framePath) settles
GifFrameWritten(c, ok) ==
    /\ gifCalls[c].pc = "frame"
    /\ UNCHANGED <<notGif, storeVars, reqVars, gifId, gifBuffer, usedDirs>>
    /\ LET g == gifCalls[c] IN
       IF ok
       THEN /\ fsFiles' = fsFiles \cup
                  {[dir |-> g.tmpDir, name |-> g.i, data |-> g.imageBuffers[g.i + 1]]}
            /\ gifCalls' = [gifCalls EXCEPT
                  ![c].i = g.i + 1,
                  ![c].pc = IF g.i + 1 < Len(g.imageBuffers) THEN "frame" ELSE "ffmpeg"]
            /\ UNCHANGED fsDirs
       ELSE Throw(c)

\* ffmpeg ends or fails; on 'end' the output is read and returned; finally
\* the directory is removed
GifEncoded(c, how) ==
    /\ gifCalls[c].pc = "ffmpeg"
    /\ UNCHANGED <<notGif, storeVars, reqVars, gifId, gifBuffer, usedDirs>>
    /\ LET g == gifCalls[c]
           frames == FramesFrom(fsFiles, g.tmpDir, 0)
       IN
       \* without a frame file ffmpeg has no input and fails
       /\ (how \in {"end", "unreadable"}) => frames # <<>>
       /\ IF how = "end"
          THEN \* fs.readFileSync(outputPath); return gifBuffer; finally rmSync
               /\ gifCalls' = [gifCalls EXCEPT
                     ![c].pc = "returned",
                     ![c].result = [frames |-> frames, fps |-> g.fps, loop |-> g.loop,
                                    width |-> DefaultWidth]]
               /\ RmSync(g.tmpDir)
          ELSE \* 'error', or readFileSync throws
               Throw(c)

\* a concurrent caller calls createGIF or createBoomerang; the concurrent calls
\* are numbered in the order they arrive
OtherGifCall(c, kind, frames, options, dir) ==
    /\ c # 1
    /\ \A d \in 2..(c - 1) : gifCalls[d].pc # "idle"
    /\ UNCHANGED <<notGif, storeVars, reqVars, gifId, gifBuffer>>
    /\ StartGif(c, kind, frames, options, dir)

\* a request that looks up the event before it has looked at its frames
NoFrames_Unchecked(r) == FALSE

\* !req.files || !req.files.length
NoFrames(r) == Len(r.files) = 0

\* the handler runs up to its first await: the events lookup
GifStart ==
    /\ route = "gif" /\ hpc = "start"
    /\ UNCHANGED <<notGif, storeVars, gifVars>>
    /\ IF NoFrames(req)
       THEN Respond(400, "No frames provided")
       ELSE hpc' = "event" /\ UNCHANGED res
    /\ UNCHANGED <<route, req, event>>

\* the events lookup returns; createBoomerang(frames) or createGIF(frames)
GifEvent(how, dir) ==
    /\ route = "gif" /\ hpc = "event"
    /\ UNCHANGED <<notGif, storeVars, gifId, gifBuffer>>
    /\ how \in LookupOutcomes(EventRows(req.eventId))
    /\ IF how = "throw"
       THEN /\ Respond(500, "lookup")
            /\ UNCHANGED <<event, gifCalls, fsDirs, fsFiles, usedDirs>>
       ELSE /\ IF how = "data"
               THEN event' \in EventRows(req.eventId)
               ELSE event' = NoEvent
            /\ StartGif(1, req.mode, req.files, NoOptions, dir)
            /\ hpc' = "encode"
            /\ UNCHANGED res
    /\ UNCHANGED <<route, req>>

\* await createGIF(...) / createBoomerang(...) settles; uuidv4(); the storage
\* write is started
GifAwaited(id) ==
    /\ route = "gif" /\ hpc = "encode"
    /\ UNCHANGED <<notGif, storeVars, gifCalls, fsDirs, fsFiles, usedDirs>>
    /\ gifCalls[1].pc \in {"returned", "thrown"}
    /\ IF gifCalls[1].pc = "returned"
       THEN /\ gifBuffer' = gifCalls[1].result
            /\ gifId' = id
            /\ hpc' = "store"
            /\ UNCHANGED res
       ELSE /\ Respond(500, "encode")
            /\ UNCHANGED <<gifBuffer, gifId>>
    /\ UNCHANGED <<route, req, event>>

\* await uploadToStorage(gifBuffer, storageKey, 'image/gif') settles
GifStored(ok) ==
    /\ route = "gif" /\ hpc = "store"
    /\ UNCHANGED <<notGif, gifVars>>
    /\ IF ok
       THEN /\ bucket' = bucket \cup {[key |-> GifKey(req.eventId, gifId),
                                       data |-> gifBuffer]}
            /\ hpc' = "qr"
            /\ UNCHANGED res
       ELSE /\ Respond(500, "storage")
            /\ UNCHANGED bucket
    /\ UNCHANGED <<route, req, event, tblEvents, tblPhotos, emits>>

\* await generateQRDataURL(galleryUrl) settles
GifQR(ok) ==
    /\ route = "gif" /\ hpc = "qr"
    /\ UNCHANGED <<notGif, storeVars, gifVars>>
    /\ IF ok
       THEN hpc' = "insert" /\ UNCHANGED res
       ELSE Respond(500, "qr")
    /\ UNCHANGED <<route, req, event>>

\* await supabase.from('photos').insert(...) settles: its result is not looked at
GifInserted(how) ==
    /\ route = "gif" /\ hpc = "insert"
    /\ UNCHANGED <<notGif, gifVars>>
    /\ CASE how = "ok" ->
              /\ tblPhotos' = tblPhotos \cup
                    {[id |-> gifId, event_id |-> req.eventId,
                      storage_key |-> GifKey(req.eventId, gifId),
                      url |-> GifKey(req.eventId, gifId), thumb_url |-> NoKey,
                      mode |-> req.mode]}
              /\ hpc' = "analytics"
              /\ UNCHANGED res
         [] how = "error" ->
              /\ hpc' = "analytics"
              /\ UNCHANGED <<tblPhotos, res>>
         [] OTHER ->
              /\ Respond(500, "insert")
              /\ UNCHANGED tblPhotos
    /\ UNCHANGED <<route, req, event, tblEvents, bucket, emits>>

\* the analytics insert settles (its failure is swallowed); res.json
GifAnalytics ==
    /\ route = "gif" /\ hpc = "analytics"
    /\ UNCHANGED <<notGif, storeVars, gifVars>>
    /\ RespondOk(gifId)
    /\ UNCHANGED <<route, req, event>>

GifOff ==
    /\ gifCalls = [c \in GifCallIds |-> NoCall]
    /\ fsDirs = {}
    /\ fsFiles = {}
    /\ usedDirs = {}
    /\ gifId = ""
    /\ gifBuffer = NoGif

(***************************************************************************)
(* DELETE /api/photos/:photoId (routes/photos.js) and DELETE /api/events/:id *)
(* (routes/events.js), served one after the other against one store.        *)
(***************************************************************************)
NoPhoto ==
    [id |-> "", event_id |-> "", storage_key |-> NoKey, url |-> NoKey,
     thumb_url |-> NoKey, mode |-> ""]

\* photo.storage_key.replace('/photos/', '/thumbs/').replace(/\.jpg$/, '_thumb.jpg')
DerivedThumbKey(key) ==
    [key EXCEPT !.dir = IF key.dir = "photos" THEN "thumbs" ELSE key.dir,
                !.suffix = IF key.suffix = ".jpg" THEN "_thumb.jpg" ELSE key.suffix]

\* deleteFromStorage(key): the object is gone afterwards, if there was one
Removed(objects, key) == { o \in objects : o.key # key }

\* supabase.from('photos').select(...).eq('event_id', eventId): the artifact list
\* of an event, as the gallery and the export read it
PhotosOf(eventId) == { p \in tblPhotos : p.event_id = eventId }

\* a request arrives while no other is being served
Request(r, id) ==
    /\ route = "off" \/ hpc = "done"
    /\ served < MaxRequests
    /\ r \in {"deletePhoto", "deleteEvent"}
    /\ UNCHANGED <<notDelete, storeVars, acked>>
    /\ served' = served + 1
    /\ route' = r
    /\ hpc' = IF r = "deletePhoto" THEN "lookup" ELSE "update"
    /\ req' = [file |-> "none", files |-> <<>>, eventId |-> "", mode |-> "", id |-> id]
    /\ res' = NoRes
    /\ event' = NoEvent
    /\ photoRow' = NoPhoto

\* the photos lookup returns; the first deleteFromStorage or the row delete is started
DeletePhotoLookup(how) ==
    /\ route = "deletePhoto" /\ hpc = "lookup"
    /\ UNCHANGED <<notDelete, storeVars, acked, served>>
    /\ how \in LookupOutcomes({ p \in tblPhotos : p.id = req.id })
    /\ CASE how = "throw" -> Respond(500, "lookup") /\ UNCHANGED photoRow
         [] how = "null" -> Respond(404, "Photo not found") /\ UNCHANGED photoRow
         [] OTHER ->
              /\ photoRow' \in { p \in tblPhotos : p.id = req.id }
              /\ hpc' = IF photoRow'.storage_key # NoKey THEN "rmObject" ELSE "rmRow"
              /\ UNCHANGED res
    /\ UNCHANGED <<route, req, event>>

\* await deleteFromStorage(photo.storage_key) settles; a failure is swallowed
DeletePhotoObject(ok) ==
    /\ route = "deletePhoto" /\ hpc = "rmObject"
    /\ UNCHANGED <<notDelete, acked, served, photoRow>>
    /\ bucket' = IF ok THEN Removed(bucket, photoRow.storage_key) ELSE bucket
    /\ hpc' = "rmThumb"
    /\ UNCHANGED <<route, req, res, event, tblEvents, tblPhotos, emits>>

\* await deleteFromStorage(thumbKey) settles; a failure is swallowed
DeletePhotoThumb(ok) ==
    /\ route = "deletePhoto" /\ hpc = "rmThumb"
    /\ UNCHANGED <<notDelete, acked, served, photoRow>>
    /\ bucket' = IF ok THEN Removed(bucket, DerivedThumbKey(photoRow.storage_key))
                 ELSE bucket
    /\ hpc' = "rmRow"
    /\ UNCHANGED <<route, req, res, event, tblEvents, tblPhotos, emits>>

\* await supabase.from('photos').delete().eq('id', photoId) settles: its result is
\* not looked at; 'photo-deleted' is emitted; res.json({ success: true })
DeletePhotoRow(how, io) ==
    /\ route = "deletePhoto" /\ hpc = "rmRow"
    /\ UNCHANGED <<notDelete, served, photoRow>>
    /\ IF how = "throw"
       THEN /\ Respond(500, "delete")
            /\ UNCHANGED <<tblPhotos, emits, acked>>
       ELSE /\ tblPhotos' = IF how = "ok" THEN { p \in tblPhotos : p.id # req.id }
                            ELSE tblPhotos
            /\ emits' = IF io /\ photoRow.event_id # ""
                        THEN Append(emits, [room |-> photoRow.event_id,
                                            name |-> "photo-deleted", photoId |-> req.id])
                        ELSE emits
            /\ RespondOk(req.id)
            /\ acked' = [acked EXCEPT !.photos = @ \cup {req.id}]
    /\ UNCHANGED <<route, req, event, tblEvents, bucket>>

\* await supabase.from('events').update({ status: 'archived', ... }).eq('id', id)
\* settles: if (error) throw error; res.json({ success: true })
DeleteEventUpdated(how) ==
    /\ route = "deleteEvent" /\ hpc = "update"
    /\ UNCHANGED <<notDelete, served, photoRow>>
    /\ IF how = "ok"
       THEN /\ tblEvents' = { IF e.id = req.id THEN [e EXCEPT !.status = "archived"] ELSE e :
                              e \in tblEvents }
            /\ RespondOk(req.id)
            /\ acked' = [acked EXCEPT !.events = @ \cup {req.id}]
       ELSE /\ Respond(500, "update")
            /\ UNCHANGED <<tblEvents, acked>>
    /\ UNCHANGED <<route, req, event, tblPhotos, bucket, emits>>

(***************************************************************************)
(* The booth store and CountdownScreen                                     *)
(***************************************************************************)
STRIP_COUNT == 4
GIF_COUNT == 6
BOOMERANG_COUNT == 5
\* event?.settings?.countdownSeconds ?? 3
DefaultCountdownSeconds == 3
BoothModes == {"single", "strip", "gif", "boomerang"}

\* mode === 'strip' ? STRIP_COUNT : mode === 'gif' ? GIF_COUNT
\*   : mode === 'boomerang' ? BOOMERANG_COUNT : 1
totalShots ==
    IF boothMode = "strip" THEN STRIP_COUNT
    ELSE IF boothMode = "gif" THEN GIF_COUNT
    ELSE IF boothMode = "boomerang" THEN BOOMERANG_COUNT
    ELSE 1

\* a useState setter of CountdownScreen: no effect once the component is unmounted
SetState(old, new) == IF mounted THEN new ELSE old

\* IdleScreen.handleStart(mode): setMode(mode); setScreen('countdown').  The booth
\* page mounts CountdownScreen, whose effect arms setTimeout(runSession, 500)
HandleStart(m, secs) ==
    /\ screen = "idle" /\ spc = "off"
    /\ UNCHANGED notBooth
    /\ boothMode' = m
    /\ screen' = "countdown"
    /\ countdownSeconds' = secs
    /\ mounted' = TRUE
    /\ cancelled' = FALSE
    /\ spc' = "timer"
    /\ UNCHANGED <<currentPhoto, isProcessing, shot, countdown, phase, shotsTaken,
                   allFrames, cancelPressed>>

\* the Cancel button: onClick={() => setScreen('idle')}
CancelClick ==
    /\ mounted /\ screen = "countdown"
    /\ UNCHANGED notBooth
    /\ screen' = "idle"
    /\ cancelPressed' = TRUE
    /\ UNCHANGED <<boothMode, currentPhoto, isProcessing, mounted, cancelled, spc,
                   countdownSeconds, shot, countdown, phase, shotsTaken, allFrames>>

\* the booth page shows another screen and, its exit animation over, unmounts
\* CountdownScreen; the cleanup of the effect: cancelled = true; clearTimeout(t)
Unmount ==
    /\ mounted /\ screen # "countdown"
    /\ UNCHANGED notBooth
    /\ mounted' = FALSE
    /\ cancelled' = TRUE
    /\ spc' = IF spc = "timer" THEN "done" ELSE spc
    /\ UNCHANGED <<screen, boothMode, currentPhoto, isProcessing, countdownSeconds, shot,
                   countdown, phase, shotsTaken, allFrames, cancelPressed>>

\* the body of the for over shots from its head, at index k: if (cancelled) return;
\* setPhase('countdown'); the countdown loop up to its first sleep(1000), or,
\* with nothing to count, on to the flash and sleep(100)
ShotLoop(k) ==
    /\ shot' = k
    /\ IF cancelled
       THEN /\ spc' = "done"
            /\ UNCHANGED <<phase, countdown>>
       ELSE IF countdownSeconds >= 1
       THEN /\ phase' = SetState(phase, "countdown")
            /\ countdown' = SetState(countdown, countdownSeconds)
            /\ spc' = "sleep1000"
       ELSE /\ phase' = SetState(phase, "capturing")
            /\ countdown' = SetState(countdown, 0)
            /\ spc' = "sleep100"

\* processCaptures(frames) up to its await: setPhase('processing');
\* setProcessing(true); the upload of the mode is sent
ProcessCaptures ==
    /\ phase' = SetState(phase, "processing")
    /\ isProcessing' = TRUE
    /\ spc' = "upload"

\* the timer of the effect fires: runSession starts
RunSession ==
    /\ spc = "timer"
    /\ UNCHANGED notBooth
    /\ allFrames' = 0
    /\ ShotLoop(0)
    /\ UNCHANGED <<screen, boothMode, currentPhoto, isProcessing, mounted, cancelled,
                   countdownSeconds, shotsTaken, cancelPressed>>

\* await sleep(1000) is over: the next second of the countdown, after
\* if (cancelled) return, or setCountdown(null); setPhase('capturing');
\* triggerFlash(); sleep(100)
CountdownSlept ==
    /\ spc = "sleep1000"
    /\ UNCHANGED notBooth
    /\ IF countdown > 1 /\ cancelled
       THEN /\ spc' = "done"
            /\ UNCHANGED <<countdown, phase>>
       ELSE IF countdown > 1
       THEN /\ countdown' = countdown - 1
            /\ spc' = "sleep1000"
            /\ UNCHANGED phase
       ELSE /\ countdown' = SetState(countdown, 0)
            /\ phase' = SetState(phase, "capturing")
            /\ spc' = "sleep100"
    /\ UNCHANGED <<screen, boothMode, currentPhoto, isProcessing, mounted, cancelled,
                   countdownSeconds, shot, shotsTaken, allFrames, cancelPressed>>

\* await sleep(100) is over: captureFrame() (null without a mounted webcam that
\* has a picture), setShotsTaken(shot + 1), then the pause before the next shot
\* or, after the last one, if (!cancelled) await processCaptures(allFrames)
FlashSlept(shown) ==
    /\ spc = "sleep100"
    /\ UNCHANGED notBooth
    /\ allFrames' = IF mounted /\ shown THEN allFrames + 1 ELSE allFrames
    /\ shotsTaken' = SetState(shotsTaken, shot + 1)
    /\ IF shot < totalShots - 1
       THEN /\ spc' = "sleep800"
            /\ UNCHANGED <<phase, isProcessing>>
       ELSE IF ~cancelled
       THEN ProcessCaptures
       ELSE /\ spc' = "done"
            /\ UNCHANGED <<phase, isProcessing>>
    /\ UNCHANGED <<screen, boothMode, currentPhoto, mounted, cancelled, countdownSeconds,
                   shot, countdown, cancelPressed>>

\* await sleep(800) is over: the next shot
PauseSlept ==
    /\ spc = "sleep800"
    /\ UNCHANGED notBooth
    /\ ShotLoop(shot + 1)
    /\ UNCHANGED <<screen, boothMode, currentPhoto, isProcessing, mounted, cancelled,
                   countdownSeconds, shotsTaken, allFrames, cancelPressed>>

\* await uploadPhoto / createStrip / createGIF settles:
\* setCurrentPhoto(result...); setScreen('preview'), or the catch:
\* setScreen('idle'); finally setProcessing(false); clearFrames()
Uploaded(how, id) ==
    /\ spc = "upload"
    /\ UNCHANGED notBooth
    /\ IF how = "ok"
       THEN /\ currentPhoto' = id
            /\ screen' = "preview"
       ELSE /\ screen' = "idle"
            /\ UNCHANGED currentPhoto
    /\ isProcessing' = FALSE
    /\ spc' = "done"
    /\ UNCHANGED <<boothMode, mounted, cancelled, countdownSeconds, shot, countdown,
                   phase, shotsTaken, allFrames, cancelPressed>>

\* the store as created, and no CountdownScreen
BoothOff ==
    /\ screen = "idle"
    /\ boothMode = "single"
    /\ currentPhoto = "none"
    /\ isProcessing = FALSE
    /\ mounted = FALSE
    /\ cancelled = FALSE
    /\ spc = "off"
    /\ countdownSeconds = DefaultCountdownSeconds
    /\ shot = 0
    /\ countdown = 0
    /\ phase = "ready"
    /\ shotsTaken = 0
    /\ allFrames = 0
    /\ cancelPressed = FALSE

NoAcks == [photos |-> {}, events |-> {}]

DeleteOff ==
    /\ photoRow = NoPhoto
    /\ acked = NoAcks
    /\ served = 0

\* no request is being served and the store is empty
HandlersOff ==
    /\ tblEvents = {}
    /\ tblPhotos = {}
    /\ bucket = {}
    /\ emits = <<>>
    /\ route = "off"
    /\ hpc = "off"
    /\ req = NoReq
    /\ res = NoRes
    /\ event = NoEvent
    /\ UploadOff
    /\ StripOff
    /\ GifOff
    /\ DeleteOff
    /\ BoothOff

(***************************************************************************)
(* Specifications                                                          *)
(***************************************************************************)

\* fetchBuffer under a caller that awaits it
InitFetch ==
    /\ FetchIdle
    /\ calls = 0
    /\ ZipOff
    /\ AIOff
    /\ HandlersOff

NextFetch ==
    \/ \E u \in Urls, options \in CallerOptions : Call(u, options)
    \/ FetchConnect
    \/ FetchRequestError
    \/ \E resp \in Responses : FetchResponse(resp)
    \/ \E c \in BodyChunks : FetchData(c)
    \/ FetchEnd
    \/ FetchResponseError
    \/ FetchHeaderBytes
    \/ Tick
    \/ FetchConnectionTimeout
    \/ FetchResponseTimeout
    \/ Return

SpecFetch == InitFetch /\ [][NextFetch]_vars

\* what a slow or redirecting peer answers, and how its bodies arrive
ClockResponses ==
    { [status |-> 200, ct |-> ImageJpeg, location |-> NoLocation],
      [status |-> 404, ct |-> TextHtml, location |-> NoLocation],
      [status |-> 300, ct |-> NoContentType, location |-> "u2"] }

\* the stand-alone caller again, with the wall-clock time of each call recorded
NextClock ==
    \/ \E u \in Urls, options \in CallerOptions : Call(u, options)
    \/ FetchConnect
    \/ FetchRequestError
    \/ \E resp \in ClockResponses : FetchResponse(resp)
    \/ \E c \in ZipChunks : FetchData(c)
    \/ FetchEnd
    \/ FetchResponseError
    \/ FetchHeaderBytes
    \/ TimedTick
    \/ FetchConnectionTimeout
    \/ FetchResponseTimeout
    \/ Return

SpecClock == InitFetch /\ [][NextClock]_vars

\* one GET /event/:eventId/zip request, from its arrival on
InitZip ==
    /\ FetchIdle
    /\ calls = 0
    /\ zpc = "photos"
    /\ dbPhotos \in PhotoLists
    /\ photos = <<>>
    /\ i = 0
    /\ skipped = 0
    /\ resStatus = 0
    /\ resHeaders = NoHeaders
    /\ headersSent = FALSE
    /\ resError = ""
    /\ archive = NoArchive
    /\ outcomes = <<>>
    /\ lookup = "none"
    /\ AIOff
    /\ HandlersOff

NextZip ==
    \/ \E how \in {"data", "error", "throw"} : ZipPhotos(how)
    \/ \E how \in {"found", "missing", "throw"} : ZipEvent(how)
    \/ FetchConnect
    \/ FetchRequestError
    \/ \E resp \in ZipResponses : FetchResponse(resp)
    \/ \E c \in ZipChunks : FetchData(c)
    \/ FetchEnd
    \/ FetchResponseError
    \/ Tick
    \/ FetchConnectionTimeout
    \/ FetchResponseTimeout
    \/ ZipFetched
    \/ ArchiveWrite
    \/ ArchiveError
    \/ ZipFinalized
    \/ ZipFinalizeFailed

SpecZip == InitZip /\ [][NextZip]_vars

\* one restyle request, from its first attempt on
InitAI ==
    /\ FetchIdle
    /\ calls = 0
    /\ ZipOff
    /\ aiState = "ATTEMPT"
    /\ session = "up"
    /\ styleKey \in StyleKeys
    /\ frameOk \in BOOLEAN
    /\ attempts = 0
    /\ waitTime = 0
    /\ waits = <<>>
    /\ notes = <<>>
    /\ replies = <<>>
    /\ aiResult = NoResult
    /\ HandlersOff

NextAI ==
    \/ \E reply \in Replies : Attempt(reply)
    \/ WaitOver

SpecAI == InitAI /\ [][NextAI]_vars

\* restyle for a session that can go away at any moment
NextSession ==
    \/ NextAI
    \/ Teardown

SpecSession == InitAI /\ [][NextSession]_vars

\* one POST /api/photos/upload request, from its arrival (after multer) on
UploadRequests ==
    [file : {"none", "f1"}, files : {<<>>}, eventId : {"", "e1", "e2"},
     mode : {"single"}, id : {""}]

InitUpload ==
    /\ FetchIdle
    /\ calls = 0
    /\ ZipOff
    /\ AIOff
    /\ \E b \in Brandings :
          tblEvents = {[id |-> "e1", status |-> "active", branding |-> b]}
    /\ tblPhotos = {}
    /\ bucket = {}
    /\ emits = <<>>
    /\ route = "upload"
    /\ hpc = "start"
    /\ req \in UploadRequests
    /\ res = NoRes
    /\ event = NoEvent
    /\ UploadOff
    /\ StripOff
    /\ GifOff
    /\ DeleteOff
    /\ BoothOff

NextUpload ==
    \/ UploadStart
    \/ \E how \in {"data", "null", "throw"}, id \in {"p1"}, ts \in Timestamps :
          UploadEvent(how, id, ts)
    \/ \E ok \in BOOLEAN : UploadResized(ok)
    \/ \E ok \in BOOLEAN : UploadOverlay(ok)
    \/ \E ok \in BOOLEAN : UploadStored(ok)
    \/ \E ok \in BOOLEAN : UploadThumbResized(ok)
    \/ \E ok \in BOOLEAN : UploadThumbStored(ok)
    \/ \E ok \in BOOLEAN : UploadQR(ok)
    \/ \E how \in {"ok", "error", "throw"} : UploadInserted(how)
    \/ \E io \in BOOLEAN : UploadAnalytics(io)

SpecUpload == InitUpload /\ [][NextUpload]_vars

RECURSIVE SeqsUpTo(_, _)
\* the sequences over S of length at most n
SeqsUpTo(S, n) ==
    IF n = 0 THEN {<<>>}
    ELSE LET shorter == SeqsUpTo(S, n - 1)
         IN  shorter \cup { Append(q, x) : q \in shorter, x \in S }

\* the brandings the strip is exercised with
StripBrandings ==
    { NoBranding, EmptyBranding,
      [EmptyBranding EXCEPT !.footerText = Str(<<"H", "i">>)] }

\* one POST /api/photos/strip request, from its arrival (after multer) on
InitStrip ==
    /\ FetchIdle
    /\ calls = 0
    /\ ZipOff
    /\ AIOff
    /\ \E b \in StripBrandings :
          tblEvents = {[id |-> "e1", status |-> "active", branding |-> b]}
    /\ tblPhotos = {}
    /\ bucket = {}
    /\ emits = <<>>
    /\ route = "strip"
    /\ hpc = "event"
    /\ \E fs \in SeqsUpTo(Frames, MaxStripFiles), e \in EventIds :
          req = [file |-> "none", files |-> fs, eventId |-> e, mode |-> "strip",
                 id |-> ""]
    /\ res = NoRes
    /\ event = NoEvent
    /\ UploadOff
    /\ StripOff
    /\ GifOff
    /\ DeleteOff
    /\ BoothOff

NextStrip ==
    \/ \E how \in {"data", "null", "throw"} : StripEvent(how)
    \/ \E ok \in BOOLEAN : StripFrameResized(ok)
    \/ \E ok \in BOOLEAN, id \in {"p1"} : StripComposited(ok, id)
    \/ \E ok \in BOOLEAN : StripStored(ok)
    \/ \E ok \in BOOLEAN : StripQR(ok)
    \/ \E how \in {"ok", "error", "throw"} : StripInserted(how)

SpecStrip == InitStrip /\ [][NextStrip]_vars

\* one POST /api/photos/strip request as the client sends it, with up to one file
\* more than the route takes
InitLongStrip ==
    /\ FetchIdle
    /\ calls = 0
    /\ ZipOff
    /\ AIOff
    /\ \E b \in StripBrandings :
          tblEvents = {[id |-> "e1", status |-> "active", branding |-> b]}
    /\ tblPhotos = {}
    /\ bucket = {}
    /\ emits = <<>>
    /\ route = "strip"
    /\ hpc = "multer"
    /\ \E fs \in SeqsUpTo(Frames, MaxStripFiles + 1), e \in EventIds :
          req = [file |-> "none", files |-> fs, eventId |-> e, mode |-> "strip",
                 id |-> ""]
    /\ res = NoRes
    /\ event = NoEvent
    /\ UploadOff
    /\ StripOff
    /\ GifOff
    /\ DeleteOff
    /\ BoothOff

NextLongStrip ==
    \/ StripMulter
    \/ NextStrip

SpecLongStrip == InitLongStrip /\ [][NextLongStrip]_vars

\* one POST /api/photos/gif request, from its arrival (after multer) on, and the
\* createGIF / createBoomerang calls of concurrent callers
InitGif ==
    /\ FetchIdle
    /\ calls = 0
    /\ ZipOff
    /\ AIOff
    /\ tblEvents = {[id |-> "e1", status |-> "active", branding |-> NoBranding]}
    /\ tblPhotos = {}
    /\ bucket = {}
    /\ emits = <<>>
    /\ route = "gif"
    /\ hpc = "start"
    /\ \E fs \in SeqsUpTo(Frames, MaxFrames), e \in {"e1"}, type \in {"gif", "boomerang"} :
          req = [file |-> "none", files |-> fs, eventId |-> e, mode |-> type, id |-> ""]
    /\ res = NoRes
    /\ event = NoEvent
    /\ UploadOff
    /\ StripOff
    /\ GifOff
    /\ DeleteOff
    /\ BoothOff

\* what a concurrent caller passes
OtherGifInputs ==
    [kind : {"gif", "boomerang"}, frames : {<<"f1", "f2">>},
     options : {NoOptions, [loop |-> 1]}]

NextGif ==
    \/ GifStart
    \/ \E how \in {"data", "null", "throw"}, dir \in TmpDirs : GifEvent(how, dir)
    \/ \E c \in GifCallIds, in \in OtherGifInputs, dir \in TmpDirs :
          OtherGifCall(c, in.kind, in.frames, in.options, dir)
    \/ \E c \in GifCallIds, ok \in BOOLEAN : GifFrameWritten(c, ok)
    \/ \E c \in GifCallIds, how \in {"end", "error", "unreadable"} : GifEncoded(c, how)
    \/ \E id \in {"p1"} : GifAwaited(id)
    \/ \E ok \in BOOLEAN : GifStored(ok)
    \/ \E ok \in BOOLEAN : GifQR(ok)
    \/ \E how \in {"ok", "error", "throw"} : GifInserted(how)
    \/ GifAnalytics

SpecGif == InitGif /\ [][NextGif]_vars

\* the artifacts the store holds when the requests start arriving
StoredRows ==
    { [id |-> "p1", event_id |-> "e1", storage_key |-> PhotoKey("e1", "p1", 1700),
       url |-> PhotoKey("e1", "p1", 1700), thumb_url |-> ThumbKey("e1", "p1"),
       mode |-> "single"],
      [id |-> "p2", event_id |-> "e1", storage_key |-> GifKey("e1", "p2"),
       url |-> GifKey("e1", "p2"), thumb_url |-> NoKey, mode |-> "gif"] }

\* the objects uploads have stored for a set of rows
ObjectsOf(rows) ==
    { [key |-> p.storage_key, data |-> Plain(p.id, PhotoSize)] : p \in rows } \cup
    { [key |-> p.thumb_url, data |-> Plain(p.id, ThumbSize)] :
        p \in { q \in rows : q.thumb_url # NoKey } }

\* delete requests against a store that holds one event and its artifacts
InitStore ==
    /\ FetchIdle
    /\ calls = 0
    /\ ZipOff
    /\ AIOff
    /\ tblEvents = {[id |-> "e1", status |-> "active", branding |-> NoBranding]}
    /\ tblPhotos \in (SUBSET StoredRows) \ {{}}
    /\ bucket = ObjectsOf(tblPhotos)
    /\ emits = <<>>
    /\ route = "off"
    /\ hpc = "off"
    /\ req = NoReq
    /\ res = NoRes
    /\ event = NoEvent
    /\ UploadOff
    /\ StripOff
    /\ GifOff
    /\ DeleteOff
    /\ BoothOff

NextStore ==
    \/ \E r \in {"deletePhoto"}, id \in PhotoIds \cup {"p3"} : Request(r, id)
    \/ \E r \in {"deleteEvent"}, id \in EventIds : Request(r, id)
    \/ \E how \in {"data", "null", "throw"} : DeletePhotoLookup(how)
    \/ \E ok \in BOOLEAN : DeletePhotoObject(ok)
    \/ \E ok \in BOOLEAN : DeletePhotoThumb(ok)
    \/ \E how \in {"ok", "error", "throw"}, io \in BOOLEAN : DeletePhotoRow(how, io)
    \/ \E how \in {"ok", "error", "throw"} : DeleteEventUpdated(how)

SpecStore == InitStore /\ [][NextStore]_vars

\* one capture session of the booth, from the tap on a mode on
InitBooth ==
    /\ FetchIdle
    /\ calls = 0
    /\ ZipOff
    /\ AIOff
    /\ HandlersOff

NextBooth ==
    \/ \E m \in BoothModes, secs \in {1, DefaultCountdownSeconds} : HandleStart(m, secs)
    \/ CancelClick
    \/ Unmount
    \/ RunSession
    \/ CountdownSlept
    \/ \E shown \in BOOLEAN : FlashSlept(shown)
    \/ PauseSlept
    \/ \E how \in {"ok", "fail"}, id \in PhotoIds : Uploaded(how, id)

SpecBooth == InitBooth /\ [][NextBooth]_vars

\* SpecFetch with the scheduling node and the operating system give: time passes,
\* a due timer fires, and a connection attempt ends (it connects or it fails)
FairFetch ==
    /\ SpecFetch
    /\ WF_vars(Tick)
    /\ WF_vars(FetchConnectionTimeout)
    /\ WF_vars(FetchResponseTimeout)
    /\ WF_vars(reqState = "connecting" /\ (FetchConnect \/ FetchRequestError))

\* an export whose storage peer may send pieces of a response head for as long as
\* it likes
NextExport == NextZip \/ FetchHeaderTrickle

\* the export with the scheduling node and the operating system give: time passes,
\* a due timer fires, a connection attempt ends, a settled await is resumed, and
\* the archiver writes what is queued
FairExport ==
    /\ InitZip /\ [][NextExport]_vars
    /\ WF_vars(Tick)
    /\ WF_vars(FetchConnectionTimeout)
    /\ WF_vars(FetchResponseTimeout)
    /\ WF_vars(reqState = "connecting" /\ (FetchConnect \/ FetchRequestError))
    /\ WF_vars(ZipFetched)
    /\ WF_vars(ArchiveWrite)
    /\ WF_vars(ZipFinalized)
    /\ WF_vars(ZipFinalizeFailed)

(***************************************************************************)
(* Properties                                                              *)
(***************************************************************************)
TextOrHtml(ct) == StartsWith(ct, TextSlash) \/ Includes(ct, Html)
Is2xx(status) == status \in 200..299
\* list positions whose fetch ended as o, in list order
Positions(o) == { k \in 1..Len(outcomes) : outcomes[k] = o }

\* C1: with M >= 1 artifacts of which K fail the fetch validation, in any positions,
\* the archive holds an entry for exactly the positions whose fetch succeeded, in
\* list order, each with the fetched bytes of a validated response; no failed fetch
\* is ever appended; and the export that opened the stream and whose archive did
\* not fail ends with status 200 and a finalized archive of M-K written entries.
C1_ExactlyTheFetched ==
    /\ Len(archive.entries) = Cardinality(Positions("ok"))
    /\ skipped = Cardinality(Positions("fail"))
    /\ \A n \in 1..Len(archive.entries) :
          LET e == archive.entries[n] IN
          /\ e.index \in Positions("ok")
          /\ Is2xx(e.resp.status) /\ ~TextOrHtml(e.resp.ct)
          /\ e.name.pos = e.index
          /\ e.name.mode = photos[e.index].mode
          /\ \A m \in 1..(n - 1) : archive.entries[m].index < e.index
    /\ (zpc = "done" /\ archive.piped /\ ~archive.errored) =>
          /\ resStatus = 200
          /\ archive.finalized
          /\ Len(outcomes) = Len(photos)
          /\ archive.written = Len(photos) - skipped

\* C1 witness: two artifacts, the first fetch failed, the second succeeded, the
\* archive is finalized.
C1_Witness ==
    /\ zpc = "done"
    /\ archive.finalized
    /\ outcomes = <<"fail", "ok">>
    /\ Len(archive.entries) = 1

\* C2: an event with no artifacts never gets an archive, a zip header or a fetch,
\* and when the lookup has answered the request ends 404 'No photos found'.
C2_NothingToExport ==
    dbPhotos = <<>> =>
        /\ ~archive.created
        /\ resHeaders.contentType # "application/zip"
        /\ calls = 0
        /\ promise = "none"
        /\ (zpc = "done" /\ lookup # "throw") =>
              resStatus = 404 /\ resError = "No photos found"

\* C2 witness: the lookup returned an empty list and the request ended 404.
C2_Witness ==
    /\ dbPhotos = <<>>
    /\ lookup = "data"
    /\ zpc = "done"
    /\ resStatus = 404

\* C3 as stated: once the archive is piped to the response no failure produces an
\* HTTP error response; error responses come from the metadata lookups alone.
C3_NoErrorOncePiped == archive.piped => resStatus < 400

\* C3 amended: once the response headers are committed no step changes the status
\* or sends an error body; the settling of a fetch never produces an error
\* response; an error response is produced only by a metadata lookup or by a
\* failed finalize, and only while no archive byte has been written.
C3_NoErrorOnceCommitted ==
    [][ /\ headersSent => (resStatus' = resStatus /\ resError' = resError)
        /\ zpc = "fetch" => resStatus' < 400
        /\ (resStatus' >= 400 /\ resStatus < 400) =>
              /\ zpc \in {"photos", "event", "finalize"}
              /\ archive.written = 0 ]_vars

\* C3 witness: the archive failed after the headers were committed and the request
\* ended without an error response.
C3_Witness ==
    /\ zpc = "done"
    /\ archive.errored
    /\ archive.written > 0
    /\ resStatus = 200
    /\ resError = ""

\* C4: a fetch resolves only on a final response with a 2xx status and a
\* content-type that neither starts with text/ nor contains html; a final response
\* that is not 2xx, or is text/html even at 200, leaves the fetch rejected, no bytes.
C4_OnlyValidatedBytes ==
    /\ promise = "resolved" =>
          /\ Is2xx(lastResp.status)
          /\ ~TextOrHtml(lastResp.ct)
          /\ result.kind = "bytes"
          /\ result.bytes = Concat(chunks)
    /\ (reqState \in {"body", "closed"} /\ respCount > 0
          /\ (~Is2xx(lastResp.status) \/ TextOrHtml(lastResp.ct))) =>
          /\ promise = "rejected"
          /\ result.kind # "bytes"
          /\ result.bytes = <<>>

\* C4 witness: an HTML page at HTTP 200 was rejected.
C4_Witness ==
    /\ promise = "rejected"
    /\ lastResp.status = 200
    /\ lastResp.ct = AppXhtml
    /\ result = ContentTypeError(AppXhtml, url)

\* C5: a call with redirect bound B issues at most B+1 requests; when the response
\* to request B+1 is again a redirect the call is rejected there, with the reason
\* the response determines, and the redirect's target is not requested.
C5_RedirectBound ==
    /\ hops <= bound + 1
    /\ respCount <= hops
    /\ promise # "none" => maxRedirects = bound - (hops - 1)
    /\ (respCount = bound + 1 /\ lastResp.status \in 300..399
          /\ lastResp.location # NoLocation) =>
          /\ promise = "rejected"
          /\ hops = bound + 1
          /\ reqState = "closed"
          /\ result = HttpError(lastResp.status, url)

\* C5 witness: with the default bound, the fourth request was answered by a
\* redirect and the call was rejected.
C5_Witness ==
    /\ bound = DefaultMaxRedirects
    /\ respCount = DefaultMaxRedirects + 1
    /\ lastResp.status = 300
    /\ lastResp.location = "u2"
    /\ promise = "rejected"

NamedCause(kind) ==
    CASE kind = "HTTP" -> "status"
      [] kind = "Unexpected content-type" -> "content-type"
      [] kind = "Connection timeout" -> "no-response"
      [] kind = "Response timeout" -> "body-stall"
      [] kind = "socket error" -> "network"
      [] OTHER -> "none"

\* C7 as stated: the reason of a failed fetch names the cause of the failure, so
\* that redirect exhaustion is not reported as a status failure and a stalled body
\* is not reported as a connection timeout.
C7_ReasonNamesCause ==
    promise = "rejected" => NamedCause(result.kind) = cause

Loading5 == [status |-> 503, wait |-> 5, decodable |-> FALSE]
Image200 == [status |-> 200, wait |-> -1, decodable |-> TRUE]
Note5 == [style |-> StyleName(styleKey), wait |-> 5]
Last(q) == q[Len(q)]

\* C8: against an endpoint that answers 'loading, retry in 5 s' twice and then with
\* an image, restyle notifies and waits after the first and after the second
\* answer and is DONE after the third attempt: three attempts, two waits of 5 s,
\* two notifications, each emitted before its wait.
C8_LoadingTwiceThenSuccess ==
    /\ Len(notes) = Len(waits) + (IF aiState = "WAIT" THEN 1 ELSE 0)
    /\ (frameOk /\ replies = <<Loading5>>) =>
          aiState \in {"WAIT", "ATTEMPT"} /\ attempts = 1 /\ notes = <<Note5>>
    /\ (frameOk /\ replies = <<Loading5, Loading5>>) =>
          aiState \in {"WAIT", "ATTEMPT"} /\ attempts = 2 /\ notes = <<Note5, Note5>>
    /\ (frameOk /\ replies = <<Loading5, Loading5, Image200>>) =>
          /\ aiState = "DONE"
          /\ aiResult.success
          /\ attempts = 3
          /\ waits = <<5, 5>>
          /\ notes = <<Note5, Note5>>

\* C8 witness: loading, loading, image; restyle is DONE.
C8_Witness ==
    /\ replies = <<Loading5, Loading5, Image200>>
    /\ aiState = "DONE"
    /\ Len(waits) = 2

\* C9: against an endpoint that always answers 'loading', restyle keeps retrying
\* below the ceiling and ends UNAVAILABLE with the attempt that reaches it; it
\* never makes more attempts than the ceiling.
C9_AlwaysLoadingEndsUnavailable ==
    /\ attempts <= RetryCeiling
    /\ Len(replies) <= RetryCeiling
    /\ aiState = "UNAVAILABLE" => attempts = RetryCeiling
    /\ (frameOk /\ replies # <<>> /\ \A k \in DOMAIN replies : replies[k].status = 503) =>
          /\ attempts = Len(replies)
          /\ Len(replies) < RetryCeiling => aiState \in {"WAIT", "ATTEMPT"}
          /\ Len(replies) = RetryCeiling =>
                aiState = "UNAVAILABLE" /\ aiResult.error = "MODEL_LOADING"

\* C9 witness: every answer was 'loading' and restyle ended UNAVAILABLE.
C9_Witness ==
    /\ aiState = "UNAVAILABLE"
    /\ Len(replies) = RetryCeiling
    /\ \A k \in DOMAIN replies : replies[k].status = 503

\* C10: after a 503 answer restyle is never FAILED; after any other error it is
\* FAILED at once, with no notification or wait for that answer; UNAVAILABLE is
\* entered only at the ceiling and carries MODEL_LOADING, which FAILED never does.
C10_OutcomesNotConflated ==
    /\ (frameOk /\ replies # <<>> /\ Last(replies).status = 503) =>
          /\ aiState \in {"WAIT", "ATTEMPT", "UNAVAILABLE"}
          /\ aiResult.error = "MODEL_LOADING"
    /\ (frameOk /\ replies # <<>> /\ Last(replies).status # 503
          /\ ~(Last(replies).status = 200 /\ Last(replies).decodable)) =>
          /\ aiState = "FAILED"
          /\ aiResult.error = "AI generation failed"
          /\ Len(notes) = Len(replies) - 1
          /\ Len(waits) = Len(notes)
    /\ aiState = "UNAVAILABLE" =>
          attempts = RetryCeiling /\ aiResult.error = "MODEL_LOADING"
    /\ aiState = "FAILED" => aiResult.error \in {"AI generation failed", "input"}
    /\ aiState = "DONE" => aiResult.success

\* C10 witness: a 503 was waited out and the next answer, a 500, ended in FAILED.
C10_Witness ==
    /\ aiState = "FAILED"
    /\ Len(replies) = 2
    /\ replies[1].status = 503
    /\ replies[2].status = 500

\* a text field with at least one character that is not white space
Visible(v) == v.t = "string" /\ \E k \in 1..Len(v.s) : v.s[k] \notin WhiteSpace
\* the branding of the event the request names
BrandingOf(eventId) == { e.branding : e \in EventRows(eventId) }
\* the full-size photos in the bucket
StoredPhotos == { o \in bucket : o.key.dir = "photos" }

\* C11: hasBrandingContent is true exactly for a non-null branding with a visible
\* footer text, a visible overlay text or showDate === true; upload awaits the
\* overlay only for such a branding; and with blank footer, blank overlay and
\* showDate false the photo it stores is the resized frame with no band on it.
C11_BrandingIsOptIn ==
    /\ \A e \in tblEvents :
          hasBrandingContent(e.branding) <=>
             /\ e.branding.t # "null"
             /\ \/ Visible(e.branding.footerText)
                \/ Visible(e.branding.overlayText)
                \/ e.branding.showDate = Bool(TRUE)
    /\ (hpc = "overlay" \/ overlayRun \in {"applied", "failed"}) =>
          event.branding.t # "null" /\ hasBrandingContent(event.branding)
    /\ \A b \in BrandingOf(req.eventId) :
          ( /\ ~Visible(b.footerText)
            /\ ~Visible(b.overlayText)
            /\ b.showDate = Bool(FALSE) ) =>
             /\ overlayRun \in {"none", "skipped"}
             /\ \A o \in StoredPhotos : o.data = Plain(req.file, PhotoSize)

\* C11 witness: footer of blanks only, empty overlay, showDate false; the upload
\* succeeded and the stored photo is the resized frame.
C11_Witness ==
    /\ route = "upload" /\ hpc = "done" /\ res.status = 200
    /\ event.branding.t = "object"
    /\ event.branding.footerText = Str(<<" ", " ">>)
    /\ event.branding.overlayText = Str(<<>>)
    /\ event.branding.showDate = Bool(FALSE)
    /\ overlayRun = "skipped"
    /\ [key |-> storageKey, data |-> Plain("f1", PhotoSize)] \in bucket

\* C12 as stated: a stored photo has a footer band only if the footer text is
\* non-blank or showDate is explicitly true, and a top band only if the overlay
\* text is non-blank.
C12_BandsOnlyForContent ==
    \A o \in StoredPhotos : \A b \in BrandingOf(o.key.event) :
        /\ o.data.footer.present =>
              Visible(b.footerText) \/ b.showDate = Bool(TRUE)
        /\ o.data.overlay.present => Visible(b.overlayText)

\* C13: a failed overlay leaves the resized frame as the buffer to store, does not
\* end the request, and is never the reason of an error response: the request goes
\* on to the storage write, every photo it stores is the unbranded resized frame,
\* and it ends in success unless a later step fails on its own.
C13_OverlayFailsSoft ==
    overlayRun = "failed" =>
        /\ hpc \in {"store", "thumb", "thumbStore", "qr", "insert", "analytics", "done"}
        /\ processedBuffer = Plain(req.file, PhotoSize)
        /\ \A o \in StoredPhotos : o.data = Plain(req.file, PhotoSize)
        /\ hpc = "done" =>
              \/ res.status = 200 /\ StoredPhotos # {}
              \/ res.status = 500 /\ res.error \in {"storage", "resize", "qr", "insert"}

\* C13 witness: the overlay failed, the request ended in success and the unbranded
\* photo is in the bucket.
C13_Witness ==
    /\ overlayRun = "failed"
    /\ hpc = "done"
    /\ res.status = 200
    /\ res.id = photoId
    /\ StoredPhotos = {[key |-> storageKey, data |-> Plain("f1", PhotoSize)]}

\* C18: an upload without a file ends 400, one without an event id ends 400, one
\* whose event id matches no event ends 404 when the lookup has answered; and none
\* of the three ever writes to storage, inserts a row or emits a live update.
C18_UploadValidates ==
    route = "upload" =>
      LET noFile == req.file = "none"
          noEventId == req.eventId = ""
          noEvent == EventRows(req.eventId) = {}
      IN  /\ (noFile /\ hpc = "done") =>
                res.status = 400 /\ res.error = "No photo provided"
          /\ (~noFile /\ noEventId /\ hpc = "done") =>
                res.status = 400 /\ res.error = "Event ID required"
          /\ (~noFile /\ ~noEventId /\ noEvent /\ hpc = "done") =>
                \/ res.status = 404 /\ res.error = "Event not found"
                \/ res.status = 500 /\ res.error = "lookup"
          /\ (noFile \/ noEventId \/ noEvent) =>
                /\ bucket = {}
                /\ tblPhotos = {}
                /\ emits = <<>>
                /\ hpc \in {"start", "event", "done"}

\* C18 witness: a photo for an event id that matches no event was answered 404.
C18_Witness ==
    /\ route = "upload" /\ hpc = "done"
    /\ req.file = "f1"
    /\ req.eventId = "e2"
    /\ res.status = 404
    /\ bucket = {}

\* C14: for n = 1..4 frames the strip is 80 + 80 + 20*(n+1) + 480*n high, frame i
\* (0-based) is placed 80 + 20 + i*(480 + 20) from the top, and every frame lies
\* between the header and the footer band without touching the one before it.
C14_StripGeometry ==
    (route = "strip" /\ hpc \in {"frame", "composite", "store", "qr", "insert"}
       /\ Len(stripPhotos) \in 1..4) =>
      LET n == Len(stripPhotos) IN
      /\ stripHeight = 80 + 80 + 20 * (n + 1) + 480 * n
      /\ Len(compositeInputs) = stripI
      /\ hpc # "frame" => Len(compositeInputs) = n
      /\ \A k \in 1..Len(compositeInputs) :
            LET c == compositeInputs[k] IN
            /\ c.input.frame = stripPhotos[k]
            /\ c.top = 80 + 20 + (k - 1) * (480 + 20)
            /\ c.top >= 80
            /\ c.top + c.input.height <= stripHeight - 80
            /\ c.left >= 0 /\ c.left + c.input.width <= 640
            /\ k > 1 => compositeInputs[k - 1].top + 480 <= c.top
      /\ hpc \in {"store", "qr", "insert"} =>
            stripBuffer.height = stripHeight /\ stripBuffer.inputs = compositeInputs

\* C14 witness: a strip of four frames was composed, 2180 high.
C14_Witness ==
    /\ route = "strip" /\ hpc = "store"
    /\ Len(stripPhotos) = 4
    /\ stripBuffer.height = 2180
    /\ Len(stripBuffer.inputs) = 4
    /\ stripBuffer.inputs[4].top = 1600

\* the calls of createGIF that have been made
StartedCalls == { c \in GifCallIds : gifCalls[c].pc # "idle" }

\* C15: createBoomerang hands createGIF, the same encoder a plain gif goes
\* through, a list of 2N frames: the N input frames in order, then the input
\* reversed; the caller's list is as it was; the encoded animation has exactly
\* these frames.
C15_BoomerangIsMirror ==
    \A c \in StartedCalls :
        LET g == gifCalls[c]
            N == Len(g.arg)
        IN  /\ g.kind = "boomerang" =>
                  /\ Len(g.imageBuffers) = 2 * N
                  /\ \A k \in 1..N : g.imageBuffers[k] = g.arg[k]
                  /\ \A k \in 1..N : g.imageBuffers[N + k] = g.arg[N - k + 1]
                  /\ g.callerFrames = g.arg
                  /\ g.fps = 8
            /\ g.kind = "gif" => g.imageBuffers = g.arg /\ g.callerFrames = g.arg
            /\ g.pc = "returned" => g.result.frames = g.imageBuffers

\* C15 witness: the boomerang of f1, f2 was encoded from f1, f2, f2, f1.
C15_Witness ==
    /\ route = "gif" /\ req.mode = "boomerang" /\ req.files = <<"f1", "f2">>
    /\ gifCalls[1].pc = "returned"
    /\ gifCalls[1].result.frames = <<"f1", "f2", "f2", "f1">>
    /\ gifCalls[1].callerFrames = <<"f1", "f2">>

\* C16: while a call of createGIF is at work its directory exists; once the call
\* has returned or thrown, the directory and every file in it are gone.
C16_TmpDirRemoved ==
    \A c \in StartedCalls :
        LET g == gifCalls[c] IN
        /\ g.pc \in {"frame", "ffmpeg"} => g.tmpDir \in fsDirs
        /\ g.pc \in {"returned", "thrown"} =>
              /\ g.tmpDir \notin fsDirs
              /\ \A f \in fsFiles : f.dir # g.tmpDir

\* C16 witness: one call returned, another threw after it had written a frame,
\* and no directory is left.
C16_Witness ==
    /\ gifCalls[1].pc = "returned"
    /\ gifCalls[2].pc = "thrown"
    /\ gifCalls[2].i > 0
    /\ fsDirs = {}
    /\ fsFiles = {}

\* C17: a gif or boomerang request without frames ends 400 with no createGIF call
\* made and nothing stored; the request's encoder call always has at least one
\* frame; and an animation loops forever (loop 0) unless the caller passed loop.
C17_AtLeastOneFrame ==
    /\ (route = "gif" /\ Len(req.files) = 0) =>
          /\ gifCalls[1].pc = "idle"
          /\ bucket = {}
          /\ tblPhotos = {}
          /\ hpc \in {"start", "done"}
          /\ hpc = "done" => res.status = 400 /\ res.error = "No frames provided"
    /\ gifCalls[1].pc # "idle" => Len(gifCalls[1].imageBuffers) >= 1
    /\ \A c \in StartedCalls :
          LET g == gifCalls[c] IN
          /\ "loop" \notin DOMAIN g.options => g.loop = 0
          /\ "loop" \in DOMAIN g.options => g.loop = g.options.loop
          /\ g.pc = "returned" => g.result.loop = g.loop /\ Len(g.result.frames) >= 1

\* C17 witness: a boomerang request without frames was answered 400 and no
\* encoder call was made.
C17_Witness ==
    /\ route = "gif" /\ hpc = "done"
    /\ req.files = <<>>
    /\ req.mode = "boomerang"
    /\ res.status = 400
    /\ gifCalls[1].pc = "idle"
    /\ usedDirs = {}

\* C19 as stated: an artifact whose DELETE was answered with success, and every
\* artifact of an event whose DELETE was answered with success, is no longer in
\* the event's artifact list, from which the gallery and every export read.
C19_DeletedMeansGone ==
    /\ \A id \in acked.photos : \A e \in EventIds : \A p \in PhotosOf(e) : p.id # id
    /\ \A e \in acked.events : PhotosOf(e) = {}

\* C20 as stated: every timeout of fetchBuffer is a wall-clock deadline counted
\* from the start of the phase it guards, which neither incoming bytes nor a
\* followed redirect put off: a fetch still pending when the time since its request
\* connected reaches the connection timeout, when the time since its response was
\* accepted reaches the response timeout, or when the time of the whole call
\* reaches the two together, has a timer due that ends it.
C20_WallClockDeadlines ==
    promise = "pending" =>
        /\ reqState = "waiting" /\ phaseMs >= connectTimeoutMs => ConnectTimerDue
        /\ reqState = "body" /\ phaseMs >= responseTimeoutMs => ResponseTimerDue
        /\ callMs >= connectTimeoutMs + responseTimeoutMs =>
               ConnectTimerDue \/ ResponseTimerDue

\* C21: the retry wait is cancellable: when the owning session is torn down while
\* restyle is in WAIT the wait is abandoned, and from then on no attempt is sent
\* to the endpoint and no progress notification is emitted.
C21_WaitIsCancellable ==
    [][/\ aiState = "WAIT" /\ session' = "down" => aiState' = "CANCELLED"
       /\ aiState = "CANCELLED" =>
              aiState' = "CANCELLED" /\ attempts' = attempts /\ notes' = notes
       /\ session = "down" /\ aiState # "ATTEMPT" =>
              attempts' = attempts /\ notes' = notes /\ waits' = waits]_vars

\* a session torn down during the wait after the first loading answer
C21_Witness ==
    /\ aiState = "CANCELLED"
    /\ session = "down"
    /\ attempts = 1
    /\ Len(notes) = 1
    /\ waits = <<>>

\* C22 as stated: no optional enrichment step of an upload (branding overlay,
\* thumbnail generation, thumbnail storage write, analytics insert and live-update
\* publish) ends the request with a failure answer.
C22_EnrichmentNeverFails ==
    [][route = "upload" /\ hpc \in {"overlay", "thumb", "thumbStore", "analytics"}
           => res'.status # 500]_vars

\* the composite createPhotoStrip gives for the first four of a frame list
FirstFour(frames) == SubSeq(frames, 1, StripFrameCap)

\* C23 as stated: a strip request with more than four frames is not failed for
\* them: it reaches the composer, which places the first four frames only and
\* gives the composite of those four alone, 2180 high.
C23_BeyondFourIgnored ==
    [][route = "strip" /\ Len(req.files) > 4 =>
          /\ hpc = "multer" => hpc' = "event"
          /\ hpc' \in {"store", "qr", "insert"} =>
                /\ stripBuffer'.height = StripHeight(4)
                /\ Len(stripBuffer'.inputs) = 4
                /\ \A k \in 1..4 :
                      stripBuffer'.inputs[k].input.frame = FirstFour(req.files)[k]]_vars

\* the calls of createGIF that are at work
ActiveCalls == { c \in GifCallIds : gifCalls[c].pc \in {"frame", "ffmpeg"} }

\* C24: concurrent calls of createGIF / createBoomerang never share a scratch
\* directory: two calls never have the same one, and while a call is at work its
\* directory holds exactly the frames this call has written so far, whatever the
\* other calls have written or removed in the meantime.
C24_ScratchDirsDisjoint ==
    /\ \A c, d \in StartedCalls : c # d => gifCalls[c].tmpDir # gifCalls[d].tmpDir
    /\ \A c \in ActiveCalls :
          LET g == gifCalls[c] IN
          /\ g.tmpDir \in fsDirs
          /\ { f \in fsFiles : f.dir = g.tmpDir } =
                { [dir |-> g.tmpDir, name |-> k - 1, data |-> g.imageBuffers[k]] :
                     k \in 1..g.i }
    /\ \A f \in fsFiles : \E c \in ActiveCalls : gifCalls[c].tmpDir = f.dir

\* C24 witness: one call has finished and removed its directory while another,
\* which had written its frames before, still has all of them.
C24_Witness ==
    /\ gifCalls[1].pc = "ffmpeg"
    /\ gifCalls[1].i = 2
    /\ gifCalls[2].pc \in {"returned", "thrown"}
    /\ gifCalls[2].i >= 1
    /\ Cardinality({ f \in fsFiles : f.dir = gifCalls[1].tmpDir }) = 2

\* C25 as stated: an upload, gif or strip request that has answered success has
\* inserted exactly one artifact record, with the id it returned, and a request
\* that has answered a failure has left no artifact record.
C25_OneRecordPerSuccess ==
    (route \in {"upload", "gif", "strip"} /\ hpc = "done") =>
        IF res.status = 200
        THEN Cardinality({ p \in tblPhotos : p.id = res.id }) = 1 /\ Cardinality(tblPhotos) = 1
        ELSE tblPhotos = {}

\* C26: the export fetches one artifact at a time, in list order: the fetch of a
\* position is started only when every earlier position has settled.  The entries
\* stand in list order, and each entry is named from its own 1-based list position,
\* its kind and the first eight characters of its id, whatever happened to the other
\* artifacts; the names of one archive are pairwise distinct.
C26_SequentialStableNames ==
    /\ calls = Len(outcomes) + (IF zpc = "fetch" THEN 1 ELSE 0)
    /\ zpc = "fetch" => i = Len(outcomes) /\ i < Len(photos)
    /\ \A n \in 1..Len(archive.entries) :
          LET e == archive.entries[n]
              photo == photos[e.index]
          IN  /\ e.name.pos = e.index
              /\ e.name.mode = photo.mode
              /\ e.name.id8 = SubSeq(photo.id, 1, Min(8, Len(photo.id)))
              /\ e.name.ext = (IF photo.mode \in {"gif", "boomerang"} THEN "gif" ELSE "jpg")
              /\ \A m \in 1..Len(archive.entries) :
                    /\ m < n => archive.entries[m].index < e.index
                    /\ m # n => archive.entries[m].name # e.name

\* C26 witness: the first artifact was skipped and the second, whose id is longer
\* than eight characters, was appended under position 2.
C26_Witness ==
    /\ outcomes = <<"fail", "ok">>
    /\ Len(archive.entries) = 1
    /\ archive.entries[1].name.pos = 2
    /\ Len(photos[2].id) > 8
    /\ Len(archive.entries[1].name.id8) = 8

\* C27 as stated: archive.finalize() is called only after exactly one fetch attempt
\* for each of the M artifacts, and every export that has opened the stream
\* eventually finalizes the archive (or the archive itself has failed), whatever
\* the fetches do: fail, stall or time out.
C27_EveryExportFinalizes ==
    /\ [](archive.finalizeCalled => calls = Len(photos) /\ Len(outcomes) = Len(photos))
    /\ archive.piped ~> (archive.finalized \/ archive.errored)

\* C28 as stated: the export answers 'nothing to export' only when the event has
\* no artifacts at all, and a lookup of the artifact list that failed is answered
\* with another error, never with 'nothing to export'.
C28_NothingToExportIsDistinct ==
    /\ (resStatus = 404 /\ resError = "No photos found") => Len(dbPhotos) = 0
    /\ (zpc = "done" /\ lookup \in {"error", "throw"}) =>
           resStatus >= 400 /\ resError # "No photos found"

\* C29 as stated: when DELETE /:photoId comes to remove the thumbnail of an artifact
\* that upload stored with one, the key it derives from the artifact's storage key
\* is the key the thumbnail is stored under; and once the delete has been answered
\* with success no object of the wiped artifact is left, unless a storage delete
\* itself failed.
C29_ThumbKeyRoundTrip ==
    /\ (route = "deletePhoto" /\ hpc = "rmThumb") =>
          \A p \in StoredRows :
             (p.id = photoRow.id /\ p.thumb_url # NoKey) =>
                 DerivedThumbKey(photoRow.storage_key) = p.thumb_url
    /\ (route = "deletePhoto" /\ hpc = "done" /\ res.status = 200) =>
          \A p \in StoredRows :
             p.id = req.id =>
                \A o \in bucket :
                   o.key = p.thumb_url => \E q \in bucket : q.key = p.storage_key

\* C30 as stated: once the capture session is cancelled (Cancel was pressed, the
\* booth shows the idle screen and CountdownScreen is unmounted), no later
\* completion of that session sets currentPhoto or moves the booth off idle.
C30_CancelledSessionIsInert ==
    [][ (cancelPressed /\ screen = "idle" /\ ~mounted) =>
            (currentPhoto' = currentPhoto /\ screen' = "idle") ]_vars

====
